---- MODULE Spec2Model ----
(***************************************************************************)
(* A model of the sharedb-tutorial OT engine: the OT kernel (checkOp,     *)
(* apply, transform), the two reference types (counter, simple-text), the *)
(* server commit loop over the in-memory store, the Agent/Backend fan-out *)
(* and the client replica (Connection/Doc).                               *)
(*                                                                         *)
(* One document (collection, id) is modelled.  JavaScript objects are     *)
(* records whose optional members are present or absent as in the code    *)
(* ('create' in op  is  "create" \in DOMAIN op); strings of the text type *)
(* are sequences of one-character strings.                                *)
(***************************************************************************)
EXTENDS Integers, Sequences, FiniteSets, TLC

(***************************************************************************)
(* Bounds of the model.                                                    *)
(***************************************************************************)
MaxSubmits == 2
MaxLifecycle == 3
MaxHandshakes == 3
MaxEdits == 3
MaxFanout == 2
MaxCalls == 3
MaxSeq == 2
MaxTextLen == 3
MaxDelta == 2
MaxRetriesOption == 1
MaxApplies == 3

\* Clients 1 and 2 edit; client 3, where it takes part, only watches.
Clients == {1, 2, 3}
Editors == {1, 2}

(***************************************************************************)
(* JavaScript null / undefined for numeric members (v, seq, version).      *)
(***************************************************************************)
NULL == -1
UNDEFINED == -2

IsNullish(x) == x = NULL \/ x = UNDEFINED
\* ToNumber coercion used by the relational and arithmetic operators
\* (null -> 0; undefined -> NaN is handled at the places that can see it).
ToNum(x) == IF x = NULL THEN 0 ELSE x

Min2(a, b) == IF a < b THEN a ELSE b
Max2(a, b) == IF a > b THEN a ELSE b

(***************************************************************************)
(* Document payloads.                                                      *)
(***************************************************************************)
NoData == [k |-> "undefined"]
Num(n) == [k |-> "number", n |-> n]
Str(s) == [k |-> "string", s |-> s]

NoType == "null"
CounterUri == "http://sharejs.org/types/counter"
TextUri == "http://sharejs.org/types/simple-text"

\* TypeRegistry.get / has: name and uri resolve to the same handler.
TypesGet(nameOrUri) ==
    CASE nameOrUri \in {"counter", CounterUri} -> CounterUri
      [] nameOrUri \in {"simple-text", TextUri} -> TextUri
      [] OTHER -> NoType

TypesHas(nameOrUri) == TypesGet(nameOrUri) # NoType

(***************************************************************************)
(* String.prototype.slice on sequences.                                    *)
(***************************************************************************)
SliceIdx(s, i) == IF i < 0 THEN Max2(Len(s) + i, 0) ELSE Min2(i, Len(s))

Slice(s, from, to) ==
    LET f == SliceIdx(s, from)
        t == SliceIdx(s, to)
    IN  IF f < t THEN SubSeq(s, f + 1, t) ELSE <<>>

SliceFrom(s, from) == Slice(s, from, Len(s))

(***************************************************************************)
(* counterType                                                             *)
(***************************************************************************)
CounterCreate(data) == IF data.k = "number" THEN Num(data.n) ELSE Num(0)

CounterApply(snapshot, op) == Num(snapshot.n + op)

CounterTransform(op1, op2, side) == op1

(***************************************************************************)
(* textType                                                                *)
(***************************************************************************)
Insert(pos, text) == [type |-> "insert", pos |-> pos, text |-> text]
Delete(pos, count) == [type |-> "delete", pos |-> pos, count |-> count]

isInsertOp(op) == op.type = "insert"

TextCreate(data) == IF data.k = "string" THEN Str(data.s) ELSE Str(<<>>)

TextApply(snapshot, op) ==
    IF isInsertOp(op)
    THEN Str(Slice(snapshot.s, 0, op.pos) \o op.text \o SliceFrom(snapshot.s, op.pos))
    ELSE Str(Slice(snapshot.s, 0, op.pos) \o SliceFrom(snapshot.s, op.pos + op.count))

\* A transform in which a delete covered by the applied delete keeps its count.
TextTransformKeepsCovered(op1, op2, side) ==
    IF isInsertOp(op2)
    THEN IF op2.pos < op1.pos \/ (op2.pos = op1.pos /\ side = "right")
         THEN [op1 EXCEPT !.pos = @ + Len(op2.text)]
         ELSE op1
    ELSE LET deleteStart == op2.pos
             deleteEnd == op2.pos + op2.count
         IN  IF isInsertOp(op1)
             THEN IF deleteEnd <= op1.pos
                  THEN [op1 EXCEPT !.pos = @ - op2.count]
                  ELSE IF deleteStart < op1.pos
                       THEN [op1 EXCEPT !.pos = deleteStart]
                       ELSE op1
             ELSE LET ourStart == op1.pos
                      ourEnd == op1.pos + op1.count
                  IN  IF deleteEnd <= ourStart
                      THEN [op1 EXCEPT !.pos = @ - op2.count]
                      ELSE IF deleteStart >= ourEnd
                      THEN op1
                      ELSE IF deleteStart <= ourStart
                      THEN IF deleteEnd >= ourEnd
                           THEN [op1 EXCEPT !.pos = deleteStart]
                           ELSE [op1 EXCEPT !.pos = deleteStart,
                                            !.count = @ - (deleteEnd - ourStart)]
                      ELSE IF deleteEnd >= ourEnd
                           THEN [op1 EXCEPT !.count = @ - (ourEnd - deleteStart)]
                           ELSE [op1 EXCEPT !.count = @ - op2.count]

\* A transform that shifts op1 past an insert at the same position on either side.
TextTransformTieShifts(op1, op2, side) ==
    IF isInsertOp(op2)
    THEN IF op2.pos <= op1.pos
         THEN [op1 EXCEPT !.pos = @ + Len(op2.text)]
         ELSE op1
    ELSE LET deleteStart == op2.pos
             deleteEnd == op2.pos + op2.count
         IN  IF isInsertOp(op1)
             THEN IF deleteEnd <= op1.pos
                  THEN [op1 EXCEPT !.pos = @ - op2.count]
                  ELSE IF deleteStart < op1.pos
                       THEN [op1 EXCEPT !.pos = deleteStart]
                       ELSE op1
             ELSE LET ourStart == op1.pos
                      ourEnd == op1.pos + op1.count
                  IN  IF deleteEnd <= ourStart
                      THEN [op1 EXCEPT !.pos = @ - op2.count]
                      ELSE IF deleteStart >= ourEnd
                      THEN op1
                      ELSE IF deleteStart <= ourStart
                      THEN IF deleteEnd >= ourEnd
                           THEN [op1 EXCEPT !.pos = deleteStart, !.count = 0]
                           ELSE [op1 EXCEPT !.pos = deleteStart,
                                            !.count = @ - (deleteEnd - ourStart)]
                      ELSE IF deleteEnd >= ourEnd
                           THEN [op1 EXCEPT !.count = @ - (ourEnd - deleteStart)]
                           ELSE [op1 EXCEPT !.count = @ - op2.count]

TextTransform(op1, op2, side) ==
    IF isInsertOp(op2)
    THEN IF op2.pos < op1.pos \/ (op2.pos = op1.pos /\ side = "right")
         THEN [op1 EXCEPT !.pos = @ + Len(op2.text)]
         ELSE op1
    ELSE LET deleteStart == op2.pos
             deleteEnd == op2.pos + op2.count
         IN  IF isInsertOp(op1)
             THEN IF deleteEnd <= op1.pos
                  THEN [op1 EXCEPT !.pos = @ - op2.count]
                  ELSE IF deleteStart < op1.pos
                       THEN [op1 EXCEPT !.pos = deleteStart]
                       ELSE op1
             ELSE LET ourStart == op1.pos
                      ourEnd == op1.pos + op1.count
                  IN  IF deleteEnd <= ourStart
                      THEN [op1 EXCEPT !.pos = @ - op2.count]
                      ELSE IF deleteStart >= ourEnd
                      THEN op1
                      ELSE IF deleteStart <= ourStart
                      THEN IF deleteEnd >= ourEnd
                           THEN [op1 EXCEPT !.pos = deleteStart, !.count = 0]
                           ELSE [op1 EXCEPT !.pos = deleteStart,
                                            !.count = @ - (deleteEnd - ourStart)]
                      ELSE IF deleteEnd >= ourEnd
                           THEN [op1 EXCEPT !.count = @ - (ourEnd - deleteStart)]
                           ELSE [op1 EXCEPT !.count = @ - op2.count]

(***************************************************************************)
(* Dispatch on the registered type (OTType.create / apply / transform).    *)
(***************************************************************************)
TypeCreate(uri, data) ==
    IF uri = CounterUri THEN CounterCreate(data) ELSE TextCreate(data)

TypeApply(uri, snapshot, op) ==
    IF uri = CounterUri THEN CounterApply(snapshot, op) ELSE TextApply(snapshot, op)

TypeTransform(uri, op1, op2, side) ==
    IF uri = CounterUri THEN CounterTransform(op1, op2, side)
    ELSE TextTransform(op1, op2, side)

(***************************************************************************)
(* Operations.  v, src and seq are always carried; an undefined member is  *)
(* UNDEFINED (v, seq) or NoSrc (src).  Exactly the members create / del /  *)
(* op that the JavaScript object has are fields of the record.             *)
(***************************************************************************)
NoSrc == ""

BaseOp(v, src, seq) == [v |-> v, src |-> src, seq |-> seq]
CreateOp(type, data, v, src, seq) ==
    [create |-> [type |-> type, data |-> data], v |-> v, src |-> src, seq |-> seq]
EditOp(payload, v, src, seq) == [op |-> payload, v |-> v, src |-> src, seq |-> seq]
DeleteOp(v, src, seq) == [del |-> TRUE, v |-> v, src |-> src, seq |-> seq]

isCreateOp(op) == "create" \in DOMAIN op
isEditOp(op) == "op" \in DOMAIN op
isDeleteOp(op) == "del" \in DOMAIN op /\ op.del = TRUE

\* delete obj.f
Without(r, fs) == [f \in DOMAIN r \ fs |-> r[f]]
\* obj.f = x  (adds the member when it is absent)
With(r, f, x) == [g \in DOMAIN r \cup {f} |-> IF g = f THEN x ELSE r[g]]

\* JSON.parse(JSON.stringify(op)): a fresh object with the defined members.
JsonClone(op) == [f \in DOMAIN op |-> op[f]]

(***************************************************************************)
(* Error codes (ERROR_CODES).                                              *)
(***************************************************************************)
OK == "OK"
ERR_APPLY_OP_VERSION_DOES_NOT_MATCH_SNAPSHOT == "ERR_APPLY_OP_VERSION_DOES_NOT_MATCH_SNAPSHOT"
ERR_DOC_ALREADY_CREATED == "ERR_DOC_ALREADY_CREATED"
ERR_DOC_DOES_NOT_EXIST == "ERR_DOC_DOES_NOT_EXIST"
ERR_DOC_TYPE_NOT_RECOGNIZED == "ERR_DOC_TYPE_NOT_RECOGNIZED"
ERR_DOC_WAS_DELETED == "ERR_DOC_WAS_DELETED"
ERR_OT_OP_BADLY_FORMED == "ERR_OT_OP_BADLY_FORMED"
ERR_OP_VERSION_MISMATCH_DURING_TRANSFORM == "ERR_OP_VERSION_MISMATCH_DURING_TRANSFORM"
ERR_OP_ALREADY_SUBMITTED == "ERR_OP_ALREADY_SUBMITTED"
ERR_SUBMIT_TRANSFORM_OPS_NOT_FOUND == "ERR_SUBMIT_TRANSFORM_OPS_NOT_FOUND"
ERR_MAX_SUBMIT_RETRIES_EXCEEDED == "ERR_MAX_SUBMIT_RETRIES_EXCEEDED"

(***************************************************************************)
(* Snapshots.                                                              *)
(***************************************************************************)
Snapshot(v, type, data) == [v |-> v, type |-> type, data |-> data]

createEmptySnapshot == Snapshot(0, NoType, NoData)

cloneSnapshot(snapshot) == Snapshot(snapshot.v, snapshot.type, snapshot.data)

(***************************************************************************)
(* OT kernel.  A function that throws returns its error code in .err and   *)
(* the argument it mutates as the throw left it.                           *)
(***************************************************************************)
checkOp(op) ==
    IF isCreateOp(op)
    THEN IF ~TypesHas(op.create.type) THEN ERR_DOC_TYPE_NOT_RECOGNIZED
         ELSE IF (op.src = NoSrc) # IsNullish(op.seq) THEN ERR_OT_OP_BADLY_FORMED
         ELSE OK
    ELSE IF "del" \in DOMAIN op /\ op.del # TRUE THEN ERR_OT_OP_BADLY_FORMED
    ELSE IF "del" \notin DOMAIN op /\ ~isEditOp(op) THEN ERR_OT_OP_BADLY_FORMED
    ELSE IF (op.src = NoSrc) # IsNullish(op.seq) THEN ERR_OT_OP_BADLY_FORMED
    ELSE OK

\* An apply whose delete does not count as a version.
applyDeleteKeepsVersion(snapshot, op) ==
    IF ~IsNullish(snapshot.v) /\ ~IsNullish(op.v) /\ snapshot.v # op.v
    THEN [err |-> ERR_APPLY_OP_VERSION_DOES_NOT_MATCH_SNAPSHOT, snapshot |-> snapshot]
    ELSE IF isCreateOp(op)
    THEN IF snapshot.type # NoType
         THEN [err |-> ERR_DOC_ALREADY_CREATED, snapshot |-> snapshot]
         ELSE IF ~TypesHas(op.create.type)
         THEN [err |-> ERR_DOC_TYPE_NOT_RECOGNIZED, snapshot |-> snapshot]
         ELSE [err |-> OK,
               snapshot |-> Snapshot(snapshot.v + 1, TypesGet(op.create.type),
                                     TypeCreate(TypesGet(op.create.type), op.create.data))]
    ELSE IF isDeleteOp(op)
    THEN [err |-> OK, snapshot |-> Snapshot(snapshot.v, NoType, NoData)]
    ELSE IF isEditOp(op)
    THEN IF snapshot.type = NoType
         THEN [err |-> ERR_DOC_DOES_NOT_EXIST, snapshot |-> snapshot]
         ELSE [err |-> OK,
               snapshot |-> Snapshot(snapshot.v + 1, snapshot.type,
                                     TypeApply(snapshot.type, snapshot.data, op.op))]
    ELSE [err |-> OK, snapshot |-> Snapshot(snapshot.v + 1, snapshot.type, snapshot.data)]

\* An apply whose delete clears the type and leaves the data.
applyDeleteKeepsData(snapshot, op) ==
    IF ~IsNullish(snapshot.v) /\ ~IsNullish(op.v) /\ snapshot.v # op.v
    THEN [err |-> ERR_APPLY_OP_VERSION_DOES_NOT_MATCH_SNAPSHOT, snapshot |-> snapshot]
    ELSE IF isCreateOp(op)
    THEN IF snapshot.type # NoType
         THEN [err |-> ERR_DOC_ALREADY_CREATED, snapshot |-> snapshot]
         ELSE IF ~TypesHas(op.create.type)
         THEN [err |-> ERR_DOC_TYPE_NOT_RECOGNIZED, snapshot |-> snapshot]
         ELSE [err |-> OK,
               snapshot |-> Snapshot(snapshot.v + 1, TypesGet(op.create.type),
                                     TypeCreate(TypesGet(op.create.type), op.create.data))]
    ELSE IF isDeleteOp(op)
    THEN [err |-> OK, snapshot |-> Snapshot(snapshot.v + 1, NoType, snapshot.data)]
    ELSE IF isEditOp(op)
    THEN IF snapshot.type = NoType
         THEN [err |-> ERR_DOC_DOES_NOT_EXIST, snapshot |-> snapshot]
         ELSE [err |-> OK,
               snapshot |-> Snapshot(snapshot.v + 1, snapshot.type,
                                     TypeApply(snapshot.type, snapshot.data, op.op))]
    ELSE [err |-> OK, snapshot |-> Snapshot(snapshot.v + 1, snapshot.type, snapshot.data)]

\* An apply whose create replaces a document that exists.
applyCreateOverwrites(snapshot, op) ==
    IF ~IsNullish(snapshot.v) /\ ~IsNullish(op.v) /\ snapshot.v # op.v
    THEN [err |-> ERR_APPLY_OP_VERSION_DOES_NOT_MATCH_SNAPSHOT, snapshot |-> snapshot]
    ELSE IF isCreateOp(op)
    THEN IF ~TypesHas(op.create.type)
         THEN [err |-> ERR_DOC_TYPE_NOT_RECOGNIZED, snapshot |-> snapshot]
         ELSE [err |-> OK,
               snapshot |-> Snapshot(snapshot.v + 1, TypesGet(op.create.type),
                                     TypeCreate(TypesGet(op.create.type), op.create.data))]
    ELSE IF isDeleteOp(op)
    THEN [err |-> OK, snapshot |-> Snapshot(snapshot.v + 1, NoType, NoData)]
    ELSE IF isEditOp(op)
    THEN IF snapshot.type = NoType
         THEN [err |-> ERR_DOC_DOES_NOT_EXIST, snapshot |-> snapshot]
         ELSE [err |-> OK,
               snapshot |-> Snapshot(snapshot.v + 1, snapshot.type,
                                     TypeApply(snapshot.type, snapshot.data, op.op))]
    ELSE [err |-> OK, snapshot |-> Snapshot(snapshot.v + 1, snapshot.type, snapshot.data)]

\* apply: the snapshot is mutated in place; every throw comes before the first write.
apply(snapshot, op) ==
    IF ~IsNullish(snapshot.v) /\ ~IsNullish(op.v) /\ snapshot.v # op.v
    THEN [err |-> ERR_APPLY_OP_VERSION_DOES_NOT_MATCH_SNAPSHOT, snapshot |-> snapshot]
    ELSE IF isCreateOp(op)
    THEN IF snapshot.type # NoType
         THEN [err |-> ERR_DOC_ALREADY_CREATED, snapshot |-> snapshot]
         ELSE IF ~TypesHas(op.create.type)
         THEN [err |-> ERR_DOC_TYPE_NOT_RECOGNIZED, snapshot |-> snapshot]
         ELSE [err |-> OK,
               snapshot |-> Snapshot(snapshot.v + 1, TypesGet(op.create.type),
                                     TypeCreate(TypesGet(op.create.type), op.create.data))]
    ELSE IF isDeleteOp(op)
    THEN [err |-> OK, snapshot |-> Snapshot(snapshot.v + 1, NoType, NoData)]
    ELSE IF isEditOp(op)
    THEN IF snapshot.type = NoType
         THEN [err |-> ERR_DOC_DOES_NOT_EXIST, snapshot |-> snapshot]
         ELSE [err |-> OK,
               snapshot |-> Snapshot(snapshot.v + 1, snapshot.type,
                                     TypeApply(snapshot.type, snapshot.data, op.op))]
    ELSE [err |-> OK, snapshot |-> Snapshot(snapshot.v + 1, snapshot.type, snapshot.data)]

BumpV(op) == IF IsNullish(op.v) THEN op ELSE [op EXCEPT !.v = @ + 1]

\* A transform that carries every op past an applied delete.
transformPastDelete(type, op, appliedOp) ==
    IF ~IsNullish(op.v) /\ ~IsNullish(appliedOp.v) /\ op.v # appliedOp.v
    THEN [err |-> ERR_OP_VERSION_MISMATCH_DURING_TRANSFORM, op |-> op]
    ELSE IF isDeleteOp(appliedOp)
    THEN [err |-> OK, op |-> BumpV(op)]
    ELSE IF isCreateOp(appliedOp) /\ (isEditOp(op) \/ isCreateOp(op) \/ isDeleteOp(op))
    THEN [err |-> ERR_DOC_ALREADY_CREATED, op |-> op]
    ELSE IF isEditOp(appliedOp) /\ isCreateOp(op)
    THEN [err |-> ERR_DOC_ALREADY_CREATED, op |-> op]
    ELSE IF isEditOp(appliedOp) /\ isEditOp(op)
    THEN IF type = NoType
         THEN [err |-> ERR_DOC_DOES_NOT_EXIST, op |-> op]
         ELSE IF ~TypesHas(type)
         THEN [err |-> ERR_DOC_TYPE_NOT_RECOGNIZED, op |-> op]
         ELSE [err |-> OK,
               op |-> BumpV([op EXCEPT !.op = TypeTransform(TypesGet(type), @,
                                                             appliedOp.op, "left")])]
    ELSE [err |-> OK, op |-> BumpV(op)]

\* transform: op is mutated in place; every throw comes before the first write.
transform(type, op, appliedOp) ==
    IF ~IsNullish(op.v) /\ ~IsNullish(appliedOp.v) /\ op.v # appliedOp.v
    THEN [err |-> ERR_OP_VERSION_MISMATCH_DURING_TRANSFORM, op |-> op]
    ELSE IF isDeleteOp(appliedOp)
    THEN IF isCreateOp(op) \/ isEditOp(op)
         THEN [err |-> ERR_DOC_WAS_DELETED, op |-> op]
         ELSE [err |-> OK, op |-> BumpV(op)]
    ELSE IF isCreateOp(appliedOp) /\ (isEditOp(op) \/ isCreateOp(op) \/ isDeleteOp(op))
    THEN [err |-> ERR_DOC_ALREADY_CREATED, op |-> op]
    ELSE IF isEditOp(appliedOp) /\ isCreateOp(op)
    THEN [err |-> ERR_DOC_ALREADY_CREATED, op |-> op]
    ELSE IF isEditOp(appliedOp) /\ isEditOp(op)
    THEN IF type = NoType
         THEN [err |-> ERR_DOC_DOES_NOT_EXIST, op |-> op]
         ELSE IF ~TypesHas(type)
         THEN [err |-> ERR_DOC_TYPE_NOT_RECOGNIZED, op |-> op]
         ELSE [err |-> OK,
               op |-> BumpV([op EXCEPT !.op = TypeTransform(TypesGet(type), @,
                                                             appliedOp.op, "left")])]
    ELSE [err |-> OK, op |-> BumpV(op)]

(***************************************************************************)
(* State.                                                                  *)
(***************************************************************************)
VARIABLES
    snapshots,           \* MemoryDb.snapshots: <<>> or <<stored snapshot>> of the document
    ops,                 \* MemoryDb.ops: the document's op log
    agents,              \* Backend.agents
    clientIdCounter,     \* Backend.clientIdCounter
    subscriptionsByDoc,  \* Backend.subscriptionsByDoc: the document's subscriber set
    subscriptions,       \* Agent.subscriptions: does agent a hold the document
    jobs,                \* the server's promise-job queue: suspended async handlers, FIFO
    toServer,            \* transport, client -> agent, per client
    toClient,            \* transport, agent -> client, per client
    conn,                \* Connection: id, seq, canSend, state
    doc,                 \* Doc: version, type, data, subscribed, inflightOp, pendingOps
    timers,              \* pending setTimeout(() => this.flush(), 0) per Doc
    callbacks,           \* per client, per submit call in order: base version, seq once sent, callback outcomes
    returned,            \* per direct submit call: the op given, the caller's op now, the result or error
    appType,             \* the OT type the application uses for this document
    calc                 \* arguments and results of the type functions under test

vars == <<snapshots, ops, agents, clientIdCounter, subscriptionsByDoc, subscriptions,
          jobs, toServer, toClient, conn, doc, timers, callbacks, returned, appType, calc>>

serverVars == <<snapshots, ops, agents, clientIdCounter, subscriptionsByDoc,
                subscriptions, jobs>>
clientVars == <<conn, doc, timers, callbacks>>

(***************************************************************************)
(* MemoryDb                                                                *)
(***************************************************************************)
getSnapshot == IF snapshots # <<>> THEN cloneSnapshot(snapshots[1]) ELSE createEmptySnapshot

\* docOps.filter(op => op.v >= fromVersion && op.v < toVersion)
getOps(fromVersion, toVersion) ==
    SelectSeq(ops, LAMBDA o : o.v >= ToNum(fromVersion) /\ o.v < toVersion)

currentVersion == IF snapshots # <<>> THEN snapshots[1].v ELSE 0

\* A commit that does not compare the op's version with the stored one.
commitAcceptsAnyVersion(op) == TRUE

\* The optimistic lock check of MemoryDb.commit.
commitAccepts(op) == op.v = currentVersion

\* A commit that logs the op also when it refuses it.
commitLogsRefused(op, snapshot) ==
    IF ~commitAccepts(op)
    THEN [ok |-> FALSE, snapshots |-> snapshots, ops |-> Append(ops, op)]
    ELSE [ok |-> TRUE,
          snapshots |-> <<cloneSnapshot(snapshot)>>,
          ops |-> Append(ops, op)]

\* MemoryDb.commit: [ok, snapshots, ops] after the call.
commit(op, snapshot) ==
    IF ~commitAccepts(op)
    THEN [ok |-> FALSE, snapshots |-> snapshots, ops |-> ops]
    ELSE [ok |-> TRUE,
          snapshots |-> <<cloneSnapshot(snapshot)>>,
          ops |-> Append(ops, op)]

(***************************************************************************)
(* submitOp, cut at its awaits.  A job is an async call in progress; pc    *)
(* names the await it is suspended on.                                     *)
(***************************************************************************)
DefaultMaxRetries == 10

NoOp == BaseOp(UNDEFINED, NoSrc, UNDEFINED)

Job(kind, agent, pc, op, opCopy, snapshot, fetched, committed, retries, err) ==
    [kind |-> kind, agent |-> agent, pc |-> pc, op |-> op, opCopy |-> opCopy,
     snapshot |-> snapshot, fetched |-> fetched, committed |-> committed,
     retries |-> retries, err |-> err]

\* The duplicate test inside the transform loop.
isDuplicate(opCopy, historicalOp) ==
    opCopy.src # NoSrc /\ opCopy.src = historicalOp.src /\ opCopy.seq = historicalOp.seq

\* for (const historicalOp of ops) { duplicate check; transform(...) }
RECURSIVE transformLoop(_, _, _, _)
transformLoop(type, opCopy, fetched, i) ==
    IF i > Len(fetched) THEN [err |-> OK, op |-> opCopy]
    ELSE IF isDuplicate(opCopy, fetched[i])
    THEN [err |-> ERR_OP_ALREADY_SUBMITTED, op |-> opCopy]
    ELSE LET r == transform(type, opCopy, fetched[i])
         IN  IF r.err # OK THEN r ELSE transformLoop(type, r.op, fetched, i + 1)

\* Call of submitOp up to its first await: checkOp, then db.getSnapshot runs.
submitStart(agent, op) ==
    IF checkOp(op) # OK
    THEN Job("op", agent, "rejected", op, NoOp, createEmptySnapshot, <<>>, FALSE, 0, checkOp(op))
    ELSE Job("op", agent, "getSnapshot", op, NoOp, getSnapshot, <<>>, FALSE, 0, OK)

\* What the retry does to the caller's op before the loop starts over.
resetForRetry(op) == [op EXCEPT !.v = UNDEFINED]

\* A commit that is made before apply has accepted the op.
commitThenApply(j, opCopy) ==
    LET a == apply(cloneSnapshot(j.snapshot), opCopy)
        c == commit(opCopy, a.snapshot)
    IN  IF a.err # OK
        THEN [job |-> [j EXCEPT !.pc = "rejected", !.opCopy = opCopy, !.err = a.err],
              snapshots |-> c.snapshots, ops |-> c.ops]
        ELSE [job |-> [j EXCEPT !.pc = "commit", !.opCopy = opCopy,
                                !.snapshot = a.snapshot, !.committed = c.ok],
              snapshots |-> c.snapshots, ops |-> c.ops]

\* Steps 4 and 5: apply to a clone, then db.commit runs (synchronously, up to its await).
\* Gives the job after the step and the store after the step.
applyAndCommit(j, opCopy) ==
    LET a == apply(cloneSnapshot(j.snapshot), opCopy)
        c == commit(opCopy, a.snapshot)
    IN  IF a.err # OK
        THEN [job |-> [j EXCEPT !.pc = "rejected", !.opCopy = opCopy, !.err = a.err],
              snapshots |-> snapshots, ops |-> ops]
        ELSE [job |-> [j EXCEPT !.pc = "commit", !.opCopy = opCopy,
                                !.snapshot = a.snapshot, !.committed = c.ok],
              snapshots |-> c.snapshots, ops |-> c.ops]

throw(j, code) == [job |-> [j EXCEPT !.pc = "rejected", !.err = code],
                   snapshots |-> snapshots, ops |-> ops]

\* Resumption after  await db.getSnapshot(...)
afterGetSnapshot(j) ==
    LET c0 == JsonClone(j.op)
        opCopy == IF c0.v = UNDEFINED THEN [c0 EXCEPT !.v = j.snapshot.v] ELSE c0
    IN  IF opCopy.v # j.snapshot.v
        THEN IF ToNum(opCopy.v) > j.snapshot.v
             THEN throw(j, ERR_OT_OP_BADLY_FORMED)
             ELSE [job |-> [j EXCEPT !.pc = "getOps", !.opCopy = opCopy,
                                     !.fetched = getOps(opCopy.v, j.snapshot.v)],
                   snapshots |-> snapshots, ops |-> ops]
        ELSE applyAndCommit([j EXCEPT !.fetched = <<>>], opCopy)

\* Resumption after  await db.getOps(...)
afterGetOps(j) ==
    IF Len(j.fetched) # j.snapshot.v - ToNum(j.opCopy.v)
    THEN throw(j, ERR_SUBMIT_TRANSFORM_OPS_NOT_FOUND)
    ELSE LET t == transformLoop(j.snapshot.type, j.opCopy, j.fetched, 1)
         IN  IF t.err # OK
             THEN throw([j EXCEPT !.opCopy = t.op], t.err)
             ELSE applyAndCommit(j, t.op)

\* A resumption that takes every commit for a success.
afterCommitIgnoresResult(j, maxRetries) ==
    [job |-> [j EXCEPT !.pc = "resolved"], snapshots |-> snapshots, ops |-> ops]

\* A resumption that starts over however often the commit has failed.
afterCommitRetriesForever(j, maxRetries) ==
    IF j.committed
    THEN [job |-> [j EXCEPT !.pc = "resolved"], snapshots |-> snapshots, ops |-> ops]
    ELSE [job |-> [j EXCEPT !.pc = "getSnapshot", !.retries = @ + 1,
                            !.op = resetForRetry(@), !.snapshot = getSnapshot],
          snapshots |-> snapshots, ops |-> ops]

\* Resumption after  await db.commit(...)
afterCommit(j, maxRetries) ==
    IF j.committed
    THEN [job |-> [j EXCEPT !.pc = "resolved"], snapshots |-> snapshots, ops |-> ops]
    ELSE IF j.retries + 1 > maxRetries
    THEN throw([j EXCEPT !.retries = @ + 1], ERR_MAX_SUBMIT_RETRIES_EXCEEDED)
    ELSE [job |-> [j EXCEPT !.pc = "getSnapshot", !.retries = @ + 1,
                            !.op = resetForRetry(@), !.snapshot = getSnapshot],
          snapshots |-> snapshots, ops |-> ops]

(***************************************************************************)
(* Transport: in-order, at-most-once delivery per direction.               *)
(***************************************************************************)
send(chan, c, message) == [chan EXCEPT ![c] = Append(@, message)]

\* The payload members of an op or message, as the senders copy them.
payloadOf(op) ==
    IF isCreateOp(op) THEN [create |-> op.create]
    ELSE IF "del" \in DOMAIN op THEN [del |-> TRUE]
    ELSE IF isEditOp(op) THEN [op |-> op.op]
    ELSE <<>>

\* Object spread { ...a, ...b } of records
Spread(a, b) == [f \in DOMAIN a \cup DOMAIN b |-> IF f \in DOMAIN b THEN b[f] ELSE a[f]]

(***************************************************************************)
(* Agent and Backend.                                                      *)
(***************************************************************************)
ackMessage(j) ==
    [a |-> "op", v |-> j.snapshot.v, src |-> j.op.src, seq |-> j.op.seq]

broadcastMessage(j) ==
    Spread([a |-> "op", v |-> j.opCopy.v, src |-> j.op.src, seq |-> j.op.seq],
           payloadOf(j.opCopy))

errorMessage(j) ==
    [a |-> "op", src |-> j.op.src, seq |-> j.op.seq, error |-> j.err]

\* A broadcast that does not leave out the submitting agent.
broadcastTargetsAll(excludeAgent) == subscriptionsByDoc

\* Backend._broadcast: the agents that message is handed to.
broadcastTargets(excludeAgent) == subscriptionsByDoc \ {excludeAgent}

broadcast(chan, message, excludeAgent) ==
    [c \in Clients |-> IF c \in broadcastTargets(excludeAgent)
                       THEN Append(chan[c], message) ELSE chan[c]]

\* Agent.handleMessage for the head of the client's channel: the handler runs up to
\* its first await and joins the job queue.
AgentReceive(c) ==
    /\ toServer[c] # <<>>
    /\ LET m == Head(toServer[c])
       IN  jobs' = Append(jobs,
                IF m.a = "s"
                THEN Job("s", c, "getSnapshot", NoOp, NoOp, getSnapshot, <<>>, FALSE, 0, OK)
                ELSE submitStart(c, Spread(BaseOp(m.v, m.src, m.seq),
                                           payloadOf(Without(m, {"a"})))))
    /\ toServer' = [toServer EXCEPT ![c] = Tail(@)]
    /\ UNCHANGED <<snapshots, ops, agents, clientIdCounter, subscriptionsByDoc,
                   subscriptions, toClient, clientVars, returned, appType, calc>>

\* A subscribe handler that replies without registering the agent for broadcasts.
SubscribeReplyUnregistered ==
    /\ jobs # <<>>
    /\ Head(jobs).kind = "s"
    /\ LET j == Head(jobs)
       IN  /\ subscriptions' = [subscriptions EXCEPT ![j.agent] = TRUE]
           /\ toClient' = send(toClient, j.agent, [a |-> "s", data |-> j.snapshot])
    /\ jobs' = Tail(jobs)
    /\ UNCHANGED <<snapshots, ops, agents, clientIdCounter, toServer, clientVars,
                   returned, appType, calc, subscriptionsByDoc>>

\* Agent._handleSubscribe after  await getSnapshot
SubscribeReply ==
    /\ jobs # <<>>
    /\ Head(jobs).kind = "s"
    /\ LET j == Head(jobs)
       IN  /\ subscriptions' = [subscriptions EXCEPT ![j.agent] = TRUE]
           /\ subscriptionsByDoc' = subscriptionsByDoc \cup {j.agent}
           /\ toClient' = send(toClient, j.agent, [a |-> "s", data |-> j.snapshot])
    /\ jobs' = Tail(jobs)
    /\ UNCHANGED <<snapshots, ops, agents, clientIdCounter, toServer, clientVars,
                   returned, appType, calc>>

\* One resumption of submitOp: after getSnapshot, getOps or commit.
SubmitStep ==
    /\ jobs # <<>>
    /\ Head(jobs).kind = "op"
    /\ Head(jobs).pc \in {"getSnapshot", "getOps", "commit"}
    /\ LET j == Head(jobs)
           r == CASE j.pc = "getSnapshot" -> afterGetSnapshot(j)
                  [] j.pc = "getOps" -> afterGetOps(j)
                  [] j.pc = "commit" -> afterCommit(j, DefaultMaxRetries)
       IN  /\ jobs' = Append(Tail(jobs), r.job)
           /\ snapshots' = r.snapshots
           /\ ops' = r.ops
    /\ UNCHANGED <<agents, clientIdCounter, subscriptionsByDoc, subscriptions,
                   toServer, toClient, clientVars, returned, appType, calc>>

\* Backend.submit resumes after  await submitOp(...)  and settles its own promise.
BackendSubmitResumes ==
    /\ jobs # <<>>
    /\ Head(jobs).kind = "op"
    /\ Head(jobs).pc \in {"resolved", "rejected"}
    /\ jobs' = Append(Tail(jobs),
                      [Head(jobs) EXCEPT !.pc = IF @ = "resolved" THEN "resolved2"
                                                ELSE "rejected2"])
    /\ UNCHANGED <<snapshots, ops, agents, clientIdCounter, subscriptionsByDoc,
                   subscriptions, toServer, toClient, clientVars, returned, appType, calc>>

\* Agent._handleOp after  await this.backend.submit(...): ack, then broadcast.
AgentAck ==
    /\ jobs # <<>>
    /\ Head(jobs).kind = "op" /\ Head(jobs).agent \in Clients /\ Head(jobs).pc = "resolved2"
    /\ LET j == Head(jobs)
       IN  toClient' = broadcast(send(toClient, j.agent, ackMessage(j)),
                                 broadcastMessage(j), j.agent)
    /\ jobs' = Tail(jobs)
    /\ UNCHANGED <<snapshots, ops, agents, clientIdCounter, subscriptionsByDoc,
                   subscriptions, toServer, clientVars, returned, appType, calc>>

\* The application calls backend.submit itself, as the examples and tests do: the call
\* runs to submitOp's first await.  Call k runs as agent -k, which no client has.
BackendSubmit(op) ==
    /\ Len(returned) < MaxCalls
    /\ returned' = Append(returned, [submitted |-> op, op |-> op, called |-> Len(ops),
                                     settled |-> FALSE, err |-> OK, v |-> UNDEFINED,
                                     data |-> NoData, ops |-> <<>>])
    /\ jobs' = Append(jobs, submitStart(0 - (Len(returned) + 1), op))
    /\ UNCHANGED <<snapshots, ops, agents, clientIdCounter, subscriptionsByDoc,
                   subscriptions, toServer, toClient, clientVars, appType, calc>>

\* The promise of such a call settles: with the result, or with the error thrown.
BackendSubmitReturns ==
    /\ jobs # <<>>
    /\ Head(jobs).kind = "op" /\ Head(jobs).agent < 0
    /\ Head(jobs).pc \in {"resolved2", "rejected2"}
    /\ LET j == Head(jobs)
       IN  returned' = [returned EXCEPT ![0 - j.agent] =
               [submitted |-> @.submitted, op |-> j.op, called |-> @.called,
                settled |-> TRUE, err |-> j.err,
                v |-> IF j.pc = "resolved2" THEN j.snapshot.v ELSE UNDEFINED,
                data |-> IF j.pc = "resolved2" THEN j.snapshot.data ELSE NoData,
                ops |-> IF j.pc = "resolved2" THEN j.fetched ELSE <<>>]]
    /\ jobs' = Tail(jobs)
    /\ UNCHANGED <<snapshots, ops, agents, clientIdCounter, subscriptionsByDoc,
                   subscriptions, toServer, toClient, clientVars, appType, calc>>

\* A caller of the exported submitOp passes options.maxRetries: the call runs to the
\* first await.  Call k runs as agent -k, as a job of its own kind that keeps the option.
SubmitOpCall(op, maxRetries) ==
    /\ Len(returned) < MaxCalls
    /\ returned' = Append(returned, [submitted |-> op, op |-> op, called |-> Len(ops),
                                     settled |-> FALSE, err |-> OK, v |-> UNDEFINED,
                                     data |-> NoData, ops |-> <<>>])
    /\ jobs' = Append(jobs, With([submitStart(0 - (Len(returned) + 1), op)
                                     EXCEPT !.kind = "submitOp"],
                                 "maxRetries", maxRetries))
    /\ UNCHANGED <<snapshots, ops, agents, clientIdCounter, subscriptionsByDoc,
                   subscriptions, toServer, toClient, clientVars, appType, calc>>

\* One resumption of such a call: after getSnapshot, getOps or commit.
SubmitOpStep ==
    /\ jobs # <<>>
    /\ Head(jobs).kind = "submitOp"
    /\ Head(jobs).pc \in {"getSnapshot", "getOps", "commit"}
    /\ LET j == Head(jobs)
           r == CASE j.pc = "getSnapshot" -> afterGetSnapshot(j)
                  [] j.pc = "getOps" -> afterGetOps(j)
                  [] j.pc = "commit" -> afterCommit(j, j.maxRetries)
       IN  /\ jobs' = Append(Tail(jobs), r.job)
           /\ snapshots' = r.snapshots
           /\ ops' = r.ops
    /\ UNCHANGED <<agents, clientIdCounter, subscriptionsByDoc, subscriptions,
                   toServer, toClient, clientVars, returned, appType, calc>>

\* The promise of such a call settles: with the result, or with the error thrown.
SubmitOpReturns ==
    /\ jobs # <<>>
    /\ Head(jobs).kind = "submitOp"
    /\ Head(jobs).pc \in {"resolved", "rejected"}
    /\ LET j == Head(jobs)
       IN  returned' = [returned EXCEPT ![0 - j.agent] =
               [submitted |-> @.submitted, op |-> j.op, called |-> @.called,
                settled |-> TRUE, err |-> j.err,
                v |-> IF j.pc = "resolved" THEN j.snapshot.v ELSE UNDEFINED,
                data |-> IF j.pc = "resolved" THEN j.snapshot.data ELSE NoData,
                ops |-> IF j.pc = "resolved" THEN j.fetched ELSE <<>>]]
    /\ jobs' = Tail(jobs)
    /\ UNCHANGED <<snapshots, ops, agents, clientIdCounter, subscriptionsByDoc,
                   subscriptions, toServer, toClient, clientVars, appType, calc>>

\* A catch branch that also tells the subscribers of the failure.
AgentErrorToAll ==
    /\ jobs # <<>>
    /\ Head(jobs).kind = "op" /\ Head(jobs).agent \in Clients /\ Head(jobs).pc = "rejected2"
    /\ toClient' = broadcast(send(toClient, Head(jobs).agent, errorMessage(Head(jobs))),
                             errorMessage(Head(jobs)), Head(jobs).agent)
    /\ jobs' = Tail(jobs)
    /\ UNCHANGED <<snapshots, ops, agents, clientIdCounter, subscriptionsByDoc,
                   subscriptions, toServer, clientVars, returned, appType, calc>>

\* Agent._handleOp, catch branch.
AgentError ==
    /\ jobs # <<>>
    /\ Head(jobs).kind = "op" /\ Head(jobs).agent \in Clients /\ Head(jobs).pc = "rejected2"
    /\ toClient' = send(toClient, Head(jobs).agent, errorMessage(Head(jobs)))
    /\ jobs' = Tail(jobs)
    /\ UNCHANGED <<snapshots, ops, agents, clientIdCounter, subscriptionsByDoc,
                   subscriptions, toServer, clientVars, returned, appType, calc>>

(***************************************************************************)
(* Client: Connection and Doc.  The Doc operators take the Doc and its     *)
(* Connection and give them back with the messages handed to the transport *)
(* and the callbacks invoked: [doc, conn, out, called].                    *)
(***************************************************************************)
NewConnection == [id |-> NoSrc, seq |-> 1, canSend |-> FALSE, state |-> "disconnected"]

NewDoc == [version |-> NULL, type |-> NoType, data |-> NoData, subscribed |-> FALSE,
           inflightOp |-> <<>>, pendingOps |-> <<>>]

Effect(d, cn, out, called) == [doc |-> d, conn |-> cn, out |-> out, called |-> called]

\* Connection.sendOp
opMessage(op) ==
    Spread([a |-> "op", v |-> op.v, src |-> op.src, seq |-> op.seq], payloadOf(op))

\* A flush that takes the newest pending op instead of the oldest.
flushNewest(d, cn) ==
    IF ~cn.canSend \/ d.inflightOp # <<>> THEN Effect(d, cn, <<>>, <<>>)
    ELSE IF d.pendingOps = <<>> THEN Effect(d, cn, <<>>, <<>>)
    ELSE LET n == Len(d.pendingOps)
             p == d.pendingOps[n]
             op == [p EXCEPT !.seq = cn.seq, !.src = cn.id]
         IN  Effect([d EXCEPT !.inflightOp = <<op>>, !.pendingOps = SubSeq(@, 1, n - 1)],
                    [cn EXCEPT !.seq = @ + 1], <<opMessage(op)>>, <<>>)

\* Doc.flush
flush(d, cn) ==
    IF ~cn.canSend \/ d.inflightOp # <<>> THEN Effect(d, cn, <<>>, <<>>)
    ELSE IF d.pendingOps = <<>> THEN Effect(d, cn, <<>>, <<>>)
    ELSE LET p == Head(d.pendingOps)
             seq == IF p.seq = UNDEFINED THEN cn.seq ELSE p.seq
             cn2 == IF p.seq = UNDEFINED THEN [cn EXCEPT !.seq = @ + 1] ELSE cn
             src == IF p.src = NoSrc THEN cn.id ELSE p.src
             op == [p EXCEPT !.seq = seq, !.src = src]
         IN  Effect([d EXCEPT !.inflightOp = <<op>>, !.pendingOps = Tail(@)],
                    cn2, <<opMessage(op)>>, <<>>)

\* Doc._otApply
otApply(d, op) ==
    IF isEditOp(op)
    THEN IF d.type = NoType THEN d
         ELSE [d EXCEPT !.data = TypeApply(d.type, d.data, op.op)]
    ELSE IF isCreateOp(op)
    THEN IF ~TypesHas(op.create.type) THEN d
         ELSE [d EXCEPT !.type = TypesGet(op.create.type),
                        !.data = TypeCreate(TypesGet(op.create.type), op.create.data)]
    ELSE IF "del" \in DOMAIN op
    THEN [d EXCEPT !.type = NoType, !.data = NoData]
    ELSE d

\* transformX(client, server): [err, client, server]
transformX(client, server) ==
    IF "del" \in DOMAIN client
    THEN [err |-> OK, client |-> client, server |-> Without(server, {"op", "create", "del"})]
    ELSE IF "del" \in DOMAIN server
    THEN [err |-> "Document was deleted", client |-> client, server |-> server]
    ELSE IF isCreateOp(server)
    THEN [err |-> "Document already created", client |-> client, server |-> server]
    ELSE IF ~isEditOp(server)
    THEN [err |-> OK, client |-> client, server |-> server]
    ELSE IF isCreateOp(client)
    THEN [err |-> "Document already created", client |-> client, server |-> server]
    ELSE IF isEditOp(client) /\ client.type # NoType
    THEN [err |-> OK,
          client |-> [client EXCEPT !.op = TypeTransform(client.type, client.op,
                                                         server.op, "left")],
          server |-> [server EXCEPT !.op = TypeTransform(client.type, server.op,
                                                         client.op, "right")]]
    ELSE [err |-> OK, client |-> client, server |-> server]

\* The loops of Doc._handleOp over inflightOp and pendingOps: transformX in turn,
\* stopping at the first error.  local is <<inflightOp, ...pendingOps>>.
RECURSIVE transformAgainst(_, _, _)
transformAgainst(local, message, i) ==
    IF i > Len(local) THEN [err |-> OK, local |-> local, message |-> message]
    ELSE LET r == transformX(local[i], message)
         IN  IF r.err # OK THEN [err |-> r.err, local |-> local, message |-> message]
             ELSE transformAgainst([local EXCEPT ![i] = r.client], r.server, i + 1)

\* Doc.subscribe
subscribe(d, cn) ==
    IF d.subscribed THEN Effect(d, cn, <<>>, <<>>)
    ELSE IF cn.canSend THEN Effect(d, cn, <<[a |-> "s"]>>, <<>>)
    ELSE Effect(d, cn, <<>>, <<>>)

\* The callbacks of a list of ops, each to be invoked with the given outcome.
RECURSIVE callAll(_, _)
callAll(opsList, outcome) ==
    IF opsList = <<>> THEN <<>>
    ELSE <<[cb |-> Head(opsList).callbacks, outcome |-> outcome]>>
         \o callAll(Tail(opsList), outcome)

\* Doc._hardRollback
hardRollback(d, cn) ==
    LET allOps == d.inflightOp \o d.pendingOps
        d2 == [d EXCEPT !.inflightOp = <<>>, !.pendingOps = <<>>, !.type = NoType,
                        !.data = NoData, !.version = NULL, !.subscribed = FALSE]
        s == subscribe(d2, cn)
    IN  Effect(s.doc, s.conn, s.out, callAll(allOps, "err"))

\* An acknowledgement that forgets to advance the version of an edit.
opAcknowledgedKeepsVersion(d, cn, message) ==
    LET inflightOp == d.inflightOp[1]
        d2 == [d EXCEPT !.version = IF isCreateOp(inflightOp) THEN message.v ELSE @,
                        !.inflightOp = <<>>]
        f == flush(d2, cn)
    IN  Effect(f.doc, f.conn, f.out, <<[cb |-> inflightOp.callbacks, outcome |-> "ok"]>>)

\* Doc._opAcknowledged
opAcknowledged(d, cn, message) ==
    LET inflightOp == d.inflightOp[1]
        d2 == [d EXCEPT !.version = IF isCreateOp(inflightOp) THEN message.v
                                    ELSE ToNum(@) + 1,
                        !.inflightOp = <<>>]
        f == flush(d2, cn)
    IN  Effect(f.doc, f.conn, f.out, <<[cb |-> inflightOp.callbacks, outcome |-> "ok"]>>)

\* A handler that takes in an op older than the replica's version.
handleOpTakesOld(d, cn, message) ==
    IF "error" \in DOMAIN message
    THEN IF d.inflightOp # <<>> THEN hardRollback(d, cn) ELSE Effect(d, cn, <<>>, <<>>)
    ELSE IF d.inflightOp # <<>> /\ message.src = d.inflightOp[1].src
                                /\ message.seq = d.inflightOp[1].seq
    THEN opAcknowledged(d, cn, message)
    ELSE IF d.version = NULL \/ message.v = UNDEFINED THEN Effect(d, cn, <<>>, <<>>)
    ELSE IF ToNum(message.v) > d.version THEN Effect(d, cn, <<>>, <<>>)
    ELSE LET t == transformAgainst(d.inflightOp \o d.pendingOps, message, 1)
             n == Len(d.inflightOp)
             d2 == [d EXCEPT !.inflightOp = SubSeq(t.local, 1, n),
                             !.pendingOps = SubSeq(t.local, n + 1, Len(t.local)),
                             !.version = @ + 1]
         IN  IF t.err # OK THEN hardRollback(d, cn)
             ELSE Effect(otApply(d2, t.message), cn, <<>>, <<>>)

\* Doc._handleOp
handleOp(d, cn, message) ==
    IF "error" \in DOMAIN message
    THEN IF d.inflightOp # <<>> THEN hardRollback(d, cn) ELSE Effect(d, cn, <<>>, <<>>)
    ELSE IF d.inflightOp # <<>> /\ message.src = d.inflightOp[1].src
                                /\ message.seq = d.inflightOp[1].seq
    THEN opAcknowledged(d, cn, message)
    ELSE IF d.version = NULL \/ message.v = UNDEFINED THEN Effect(d, cn, <<>>, <<>>)
    ELSE IF ToNum(message.v) > d.version THEN Effect(d, cn, <<>>, <<>>)
    ELSE IF ToNum(message.v) < d.version THEN Effect(d, cn, <<>>, <<>>)
    ELSE LET t == transformAgainst(d.inflightOp \o d.pendingOps, message, 1)
             n == Len(d.inflightOp)
             d2 == [d EXCEPT !.inflightOp = SubSeq(t.local, 1, n),
                             !.pendingOps = SubSeq(t.local, n + 1, Len(t.local)),
                             !.version = @ + 1]
         IN  IF t.err # OK THEN hardRollback(d, cn)
             ELSE Effect(otApply(d2, t.message), cn, <<>>, <<>>)

\* Doc._ingestSnapshot
ingestSnapshot(d, snapshot) ==
    IF snapshot.type # NoType
    THEN [d EXCEPT !.version = snapshot.v, !.type = TypesGet(snapshot.type),
                   !.data = snapshot.data]
    ELSE [d EXCEPT !.version = snapshot.v, !.type = NoType, !.data = NoData]

\* Doc._handleSubscribe (the reply carries no error: getSnapshot of the store never throws)
handleSubscribe(d, cn, message) ==
    Effect(ingestSnapshot([d EXCEPT !.subscribed = TRUE], message.data), cn, <<>>, <<>>)

\* Doc._submit: optimistic apply, queue, schedule a flush
submit(d, op) == [otApply(d, op) EXCEPT !.pendingOps = Append(@, op)]

(***************************************************************************)
(* Client actions.                                                         *)
(***************************************************************************)
RECURSIVE record(_, _)
record(cbs, called) ==
    IF called = <<>> THEN cbs
    ELSE LET e == Head(called)
         IN  record([cbs EXCEPT ![e.cb] = IF e.outcome = "ok"
                                          THEN [@ EXCEPT !.ok = @ + 1]
                                          ELSE [@ EXCEPT !.err = @ + 1]],
                    Tail(called))

\* The submit whose op the effect sends, if it sends one, is noted with the op's seq.
sent(cbs, e) ==
    IF \E i \in 1..Len(e.out) : e.out[i].a = "op"
    THEN [cbs EXCEPT ![e.doc.inflightOp[1].callbacks].seq = e.doc.inflightOp[1].seq]
    ELSE cbs

\* Install the effect of a Doc operation of client c.
Install(c, e) ==
    /\ doc' = [doc EXCEPT ![c] = e.doc]
    /\ conn' = [conn EXCEPT ![c] = e.conn]
    /\ toServer' = [toServer EXCEPT ![c] = @ \o e.out]
    /\ callbacks' = [callbacks EXCEPT ![c] = sent(record(@, e.called), e)]

\* backend.createAgent(), bindToTransport and the handshake, as the applications wire them.
Connect(c) ==
    /\ conn[c].state = "disconnected"
    /\ c \notin agents
    /\ agents' = agents \cup {c}
    /\ clientIdCounter' = clientIdCounter + 1
    /\ LET cn == [conn[c] EXCEPT !.id = ToString(clientIdCounter + 1),
                                 !.state = "connected", !.canSend = TRUE]
       IN  Install(c, flush(doc[c], cn))
    /\ UNCHANGED <<snapshots, ops, subscriptionsByDoc, subscriptions, jobs, toClient,
                   timers, returned, appType, calc>>

\* The application calls doc.subscribe() and waits for the reply before calling it again.
subscribePending(c) ==
    \/ \E i \in 1..Len(toServer[c]) : toServer[c][i].a = "s"
    \/ \E i \in 1..Len(jobs) : jobs[i].kind = "s" /\ jobs[i].agent = c
    \/ \E i \in 1..Len(toClient[c]) : toClient[c][i].a = "s"

Subscribe(c) ==
    /\ ~doc[c].subscribed
    /\ conn[c].canSend
    /\ ~subscribePending(c)
    /\ Install(c, subscribe(doc[c], conn[c]))
    /\ UNCHANGED <<serverVars, toClient, timers, returned, appType, calc>>

\* A submit whose local precondition fails only invokes the callback with an error.
Refuse(c) ==
    /\ callbacks' = [callbacks EXCEPT ![c] = Append(@, [v |-> doc[c].version, seq |-> UNDEFINED, ok |-> 0, err |-> 1])]
    /\ UNCHANGED <<doc, conn, toServer, timers>>

Accept(c, op) ==
    /\ callbacks' = [callbacks EXCEPT ![c] = Append(@, [v |-> op.v, seq |-> UNDEFINED, ok |-> 0, err |-> 0])]
    /\ doc' = [doc EXCEPT ![c] = submit(@, op)]
    /\ timers' = [timers EXCEPT ![c] = @ + 1]
    /\ UNCHANGED <<conn, toServer>>

PendingOp(op, type, cb) == Spread(op, [type |-> type, callbacks |-> cb])

\* The application makes at most MaxSubmits submit calls in all.
CanSubmit == Len(callbacks[1]) + Len(callbacks[2]) + Len(callbacks[3]) < MaxSubmits

\* Edits the application may submit on the data it sees.
CounterDeltas(c) == {c}

TextChar(c) == IF c = 1 THEN "X" ELSE "Y"

TextEdits(c, text) ==
    {Insert(pos, <<TextChar(c)>>) : pos \in IF Len(text) < MaxTextLen THEN 0..Len(text) ELSE {}}
    \cup UNION {{Delete(pos, count) : count \in 1..(Len(text) - pos)} : pos \in 0..(Len(text) - 1)}

Components(c, d) ==
    IF d.type = CounterUri THEN CounterDeltas(c)
    ELSE IF d.type = TextUri THEN TextEdits(c, d.data.s)
    ELSE {0}

InitialData(type) == IF type = CounterUri THEN Num(0) ELSE Str(<<"a", "b">>)

\* Doc.submitOp
SubmitOp(c) ==
    /\ \E component \in Components(c, doc[c]) :
         IF doc[c].type = NoType THEN Refuse(c)
         ELSE Accept(c, PendingOp(EditOp(component, doc[c].version, NoSrc, UNDEFINED),
                                  doc[c].type, Len(callbacks[c]) + 1))
    /\ UNCHANGED <<serverVars, toClient, returned, appType, calc>>

\* Doc.create
Create(c) ==
    /\ IF doc[c].type # NoType THEN Refuse(c)
       ELSE Accept(c, PendingOp(CreateOp(appType, InitialData(appType),
                                         IF doc[c].version = NULL THEN 0 ELSE doc[c].version,
                                         NoSrc, UNDEFINED),
                                appType, Len(callbacks[c]) + 1))
    /\ UNCHANGED <<serverVars, toClient, returned, appType, calc>>

\* Doc.del
Del(c) ==
    /\ IF doc[c].type = NoType THEN Refuse(c)
       ELSE Accept(c, PendingOp(DeleteOp(doc[c].version, NoSrc, UNDEFINED),
                                doc[c].type, Len(callbacks[c]) + 1))
    /\ UNCHANGED <<serverVars, toClient, returned, appType, calc>>

\* A timer set by _submit fires: flush().
FlushTimer(c) ==
    /\ timers[c] > 0
    /\ timers' = [timers EXCEPT ![c] = @ - 1]
    /\ Install(c, flush(doc[c], conn[c]))
    /\ UNCHANGED <<serverVars, toClient, returned, appType, calc>>

\* Connection.handleMessage for the head of the agent's channel.
ClientReceive(c) ==
    /\ toClient[c] # <<>>
    /\ toClient' = [toClient EXCEPT ![c] = Tail(@)]
    /\ LET m == Head(toClient[c])
       IN  IF m.a = "s" THEN Install(c, handleSubscribe(doc[c], conn[c], m))
           ELSE Install(c, handleOp(doc[c], conn[c], m))
    /\ UNCHANGED <<serverVars, timers, returned, appType, calc>>

\* Connection.close over the transport the applications wire: transport.close() is
\* agent.close(), which drops the agent's subscriptions and the agent; the messages
\* already handed to the transport are still delivered.
Close(c) ==
    /\ conn[c].state = "connected"
    /\ agents' = agents \ {c}
    /\ subscriptionsByDoc' = subscriptionsByDoc \ {c}
    /\ subscriptions' = [subscriptions EXCEPT ![c] = FALSE]
    /\ conn' = [conn EXCEPT ![c].state = "disconnected", ![c].canSend = FALSE]
    /\ UNCHANGED <<snapshots, ops, clientIdCounter, jobs, toServer, toClient, doc, timers,
                   callbacks, returned, appType, calc>>

(***************************************************************************)
(* The protocol: clients and server over the transport.                    *)
(***************************************************************************)
\* The store of a backend constructed over a database that already holds the document.
NoCalc == [stage |-> "idle"]

CreatedSnapshot(type) ==
    apply(createEmptySnapshot, CreateOp(type, InitialData(type), 0, NoSrc, UNDEFINED)).snapshot

InitClients ==
    /\ conn = [c \in Clients |-> NewConnection]
    /\ doc = [c \in Clients |-> NewDoc]
    /\ timers = [c \in Clients |-> 0]
    /\ callbacks = [c \in Clients |-> <<>>]
    /\ toServer = [c \in Clients |-> <<>>]
    /\ toClient = [c \in Clients |-> <<>>]

InitBackend ==
    /\ agents = {}
    /\ clientIdCounter = 0
    /\ subscriptionsByDoc = {}
    /\ subscriptions = [c \in Clients |-> FALSE]
    /\ jobs = <<>>
    /\ returned = <<>>

EmptyStore == snapshots = <<>> /\ ops = <<>>

LoadedStore ==
    /\ snapshots = <<CreatedSnapshot(appType)>>
    /\ ops = <<CreateOp(appType, InitialData(appType), 0, NoSrc, UNDEFINED)>>

Init ==
    /\ appType = CounterUri
    /\ LoadedStore
    /\ InitBackend
    /\ InitClients
    /\ calc = NoCalc

Commits == SubscribeReply \/ SubmitStep \/ BackendSubmitResumes \/ AgentAck

Server == Commits \/ AgentError

Next ==
    \/ \E c \in Editors : Connect(c)
    \/ \E c \in Editors : Subscribe(c)
    \/ \E c \in Editors : CanSubmit /\ SubmitOp(c)
    \/ \E c \in Editors : CanSubmit /\ Create(c)
    \/ \E c \in Editors : CanSubmit /\ Del(c)
    \/ \E c \in Editors : FlushTimer(c)
    \/ \E c \in Editors : ClientReceive(c)
    \/ \E c \in Editors : AgentReceive(c)
    \/ Server

Spec == Init /\ [][Next]_vars

(***************************************************************************)
(* The same protocol with room for a rejected submit to be made again:     *)
(* MaxLifecycle submit calls in all.                                       *)
(***************************************************************************)
CanSubmitAgain == Len(callbacks[1]) + Len(callbacks[2]) + Len(callbacks[3]) < MaxLifecycle

NextLifecycle ==
    \/ \E c \in Editors : Connect(c)
    \/ \E c \in Editors : Subscribe(c)
    \/ \E c \in Editors : CanSubmitAgain /\ SubmitOp(c)
    \/ \E c \in Editors : CanSubmitAgain /\ Create(c)
    \/ \E c \in Editors : CanSubmitAgain /\ Del(c)
    \/ \E c \in Editors : FlushTimer(c)
    \/ \E c \in Editors : ClientReceive(c)
    \/ \E c \in Editors : AgentReceive(c)
    \/ Server

SpecLifecycle == Init /\ [][NextLifecycle]_vars

(***************************************************************************)
(* Two editors of an existing text document, one edit each.                *)
(***************************************************************************)
InitText ==
    /\ appType = TextUri
    /\ LoadedStore
    /\ InitBackend
    /\ InitClients
    /\ calc = NoCalc

NextText ==
    \/ \E c \in Editors : Connect(c)
    \/ \E c \in Editors : Subscribe(c)
    \/ \E c \in Editors : callbacks[c] = <<>> /\ doc[c].type # NoType /\ SubmitOp(c)
    \/ \E c \in Editors : FlushTimer(c)
    \/ \E c \in Editors : ClientReceive(c)
    \/ \E c \in Editors : AgentReceive(c)
    \/ Commits

SpecText == InitText /\ [][NextText]_vars

(***************************************************************************)
(* Two editors of an existing counter document, MaxEdits increments in all.*)
(***************************************************************************)
CanEdit == Len(callbacks[1]) + Len(callbacks[2]) + Len(callbacks[3]) < MaxEdits

NextCounter ==
    \/ \E c \in Editors : Connect(c)
    \/ \E c \in Editors : Subscribe(c)
    \/ \E c \in Editors : CanEdit /\ doc[c].type # NoType /\ SubmitOp(c)
    \/ \E c \in Editors : FlushTimer(c)
    \/ \E c \in Editors : ClientReceive(c)
    \/ \E c \in Editors : AgentReceive(c)
    \/ Commits

SpecCounter == Init /\ [][NextCounter]_vars

(***************************************************************************)
(* Fan-out: two editors and a third subscriber of a counter document,      *)
(* MaxFanout increments in all.                                            *)
(***************************************************************************)
CanFanout == Len(callbacks[1]) + Len(callbacks[2]) + Len(callbacks[3]) < MaxFanout

NextFanout ==
    \/ \E c \in Clients : Connect(c)
    \/ \E c \in Clients : Subscribe(c)
    \/ \E c \in Editors : CanFanout /\ doc[c].type # NoType /\ SubmitOp(c)
    \/ \E c \in Editors : FlushTimer(c)
    \/ \E c \in Clients : ClientReceive(c)
    \/ \E c \in Clients : AgentReceive(c)
    \/ Commits

SpecFanout == Init /\ [][NextFanout]_vars

(***************************************************************************)
(* The backend alone: the application submits increments of a counter      *)
(* document with backend.submit, MaxCalls calls in all, each with one of   *)
(* MaxSeq origins and any version up to one past the current one, or none. *)
(***************************************************************************)
DirectOps ==
    {EditOp(1, v, "x", seq) : v \in {UNDEFINED} \cup 0..(currentVersion + 1), seq \in 1..MaxSeq}

NextSubmit ==
    \/ \E op \in DirectOps : BackendSubmit(op)
    \/ SubmitStep
    \/ BackendSubmitResumes
    \/ BackendSubmitReturns

SpecSubmit == Init /\ [][NextSubmit]_vars

(***************************************************************************)
(* The same protocol on a new backend, whose store holds no document yet:  *)
(* a client creates it, subscribed or not.                                 *)
(***************************************************************************)
InitFresh ==
    /\ appType = CounterUri
    /\ EmptyStore
    /\ InitBackend
    /\ InitClients
    /\ calc = NoCalc

SpecFresh == InitFresh /\ [][Next]_vars

(***************************************************************************)
(* The protocol with connections that are closed and bound again: a new    *)
(* agent and transport are wired to the connection once the traffic of the *)
(* old ones has been delivered.  Every scheduled callback of the event     *)
(* loop runs, and a closed connection is bound again.                      *)
(***************************************************************************)
Drained(c) ==
    /\ toServer[c] = <<>> /\ toClient[c] = <<>>
    /\ \A i \in 1..Len(jobs) : jobs[i].agent # c

CanHandshake == clientIdCounter < MaxHandshakes

\* A connection is closed only while a handshake is left for every closed connection.
CanClose ==
    Cardinality({c \in Editors : conn[c].state = "disconnected"}) < MaxHandshakes - clientIdCounter

NextReconnect ==
    \/ \E c \in Editors : CanHandshake /\ Drained(c) /\ Connect(c)
    \/ \E c \in Editors : CanClose /\ ~subscribePending(c) /\ Close(c)
    \/ \E c \in Editors : Subscribe(c)
    \/ \E c \in Editors : CanSubmit /\ SubmitOp(c)
    \/ \E c \in Editors : FlushTimer(c)
    \/ \E c \in Editors : ClientReceive(c)
    \/ \E c \in Editors : AgentReceive(c)
    \/ Commits

SpecReconnect ==
    /\ Init /\ [][NextReconnect]_vars
    /\ WF_vars(Commits)
    /\ \A c \in Editors :
         /\ WF_vars(ClientReceive(c)) /\ WF_vars(AgentReceive(c)) /\ WF_vars(FlushTimer(c))
         /\ WF_vars(CanHandshake /\ Drained(c) /\ Connect(c))

(***************************************************************************)
(* Subscribing and closing alone: a connection may be closed while the     *)
(* agent is still handling its subscribe request.                          *)
(***************************************************************************)
NextClose ==
    \/ \E c \in Editors : CanHandshake /\ Drained(c) /\ Connect(c)
    \/ \E c \in Editors : CanClose /\ Close(c)
    \/ \E c \in Editors : Subscribe(c)
    \/ \E c \in Editors : ClientReceive(c)
    \/ \E c \in Editors : AgentReceive(c)
    \/ SubscribeReply

SpecClose == Init /\ [][NextClose]_vars

(***************************************************************************)
(* Clients of a new backend that submit only before they are subscribed:   *)
(* before the handshake, or before the reply to their subscribe request    *)
(* has arrived.  Every scheduled callback of the event loop runs, and a    *)
(* connection is bound in the end.                                         *)
(***************************************************************************)
NextEarly ==
    \/ \E c \in Editors : Connect(c)
    \/ \E c \in Editors : Subscribe(c)
    \/ \E c \in Editors : CanSubmit /\ ~doc[c].subscribed /\ SubmitOp(c)
    \/ \E c \in Editors : CanSubmit /\ ~doc[c].subscribed /\ Create(c)
    \/ \E c \in Editors : CanSubmit /\ ~doc[c].subscribed /\ Del(c)
    \/ \E c \in Editors : FlushTimer(c)
    \/ \E c \in Editors : ClientReceive(c)
    \/ \E c \in Editors : AgentReceive(c)
    \/ Server

SpecEarly ==
    /\ InitFresh /\ [][NextEarly]_vars
    /\ WF_vars(Server)
    /\ \A c \in Editors :
         /\ WF_vars(ClientReceive(c)) /\ WF_vars(AgentReceive(c)) /\ WF_vars(FlushTimer(c))
         /\ WF_vars(Connect(c))

(***************************************************************************)
(* The store under the commit loop alone: a document that was never        *)
(* created, and MaxCalls backend.submit calls that create it, edit it at   *)
(* any version up to one past the current one, or delete it; of either     *)
(* type.                                                                   *)
(***************************************************************************)
StorePayload == IF appType = CounterUri THEN 1 ELSE Insert(0, <<"a">>)

StoreOps ==
    {CreateOp(appType, InitialData(appType), UNDEFINED, NoSrc, UNDEFINED),
     DeleteOp(UNDEFINED, NoSrc, UNDEFINED)}
    \cup {EditOp(StorePayload, v, NoSrc, UNDEFINED) :
            v \in {UNDEFINED} \cup 0..(currentVersion + 1)}

InitStore ==
    /\ appType \in {CounterUri, TextUri}
    /\ EmptyStore
    /\ InitBackend
    /\ InitClients
    /\ calc = NoCalc

NextStore ==
    \/ \E op \in StoreOps : BackendSubmit(op)
    \/ SubmitStep
    \/ BackendSubmitResumes
    \/ BackendSubmitReturns

SpecStore == InitStore /\ [][NextStore]_vars

(***************************************************************************)
(* A caller of the store's reads that writes to what it was given.  calc   *)
(* is the object the caller holds: its value, and ref, the log entry that  *)
(* is this same object (0 when the object is the caller's alone).          *)
(***************************************************************************)
\* getSnapshot returns cloneSnapshot(...) or createEmptySnapshot(...): a new object.
ReadSnapshot ==
    /\ calc = NoCalc
    /\ calc' = [stage |-> "held", ref |-> 0, value |-> getSnapshot]
    /\ UNCHANGED <<serverVars, toServer, toClient, clientVars, returned, appType>>

\* The positions in the log of the entries that docOps.filter(...) selects.
getOpsRefs(fromVersion, toVersion) ==
    SelectSeq([i \in 1..Len(ops) |-> i],
              LAMBDA i : ops[i].v >= ToNum(fromVersion) /\ ops[i].v < toVersion)

\* getOps returns docOps.filter(...): a new array of the stored objects themselves.
\* The caller takes element k of the whole log.
ReadOp(k) ==
    /\ calc = NoCalc
    /\ k \in 1..Len(getOpsRefs(0, currentVersion))
    /\ calc' = [stage |-> "held", ref |-> getOpsRefs(0, currentVersion)[k],
                value |-> getOps(0, currentVersion)[k]]
    /\ UNCHANGED <<serverVars, toServer, toClient, clientVars, returned, appType>>

\* The caller assigns to a member of the object it holds:  held.v = held.v + 1
Mutate ==
    /\ calc # NoCalc /\ calc.stage = "held"
    /\ calc' = [calc EXCEPT !.stage = "mutated", !.value.v = @ + 1]
    /\ ops' = IF calc.ref = 0 THEN ops ELSE [ops EXCEPT ![calc.ref].v = @ + 1]
    /\ UNCHANGED <<snapshots, agents, clientIdCounter, subscriptionsByDoc, subscriptions,
                   jobs, toServer, toClient, clientVars, returned, appType>>

NextReads ==
    \/ \E op \in StoreOps : BackendSubmit(op)
    \/ SubmitStep
    \/ BackendSubmitResumes
    \/ BackendSubmitReturns
    \/ ReadSnapshot
    \/ \E k \in 1..MaxCalls : ReadOp(k)
    \/ Mutate

SpecReads == InitStore /\ [][NextReads]_vars

(***************************************************************************)
(* Callers of submitOp that limit the retries: MaxCalls calls on the       *)
(* loaded document, each at the current version or with none, and with     *)
(* maxRetries 0 or MaxRetriesOption.  The event loop runs every resumption *)
(* that is due, hence the fairness.                                        *)
(***************************************************************************)
RetryOps == {EditOp(1, v, NoSrc, UNDEFINED) : v \in {UNDEFINED, currentVersion}}

NextRetries ==
    \/ \E op \in RetryOps, maxRetries \in {0, MaxRetriesOption} : SubmitOpCall(op, maxRetries)
    \/ SubmitOpStep
    \/ SubmitOpReturns

SpecRetries ==
    Init /\ [][NextRetries]_vars /\ WF_vars(SubmitOpStep) /\ WF_vars(SubmitOpReturns)

(***************************************************************************)
(* The kernel's apply on its own, as its tests call it: a snapshot that    *)
(* starts empty and has ops applied to it one after the other, any kind    *)
(* of op with any version member, MaxApplies versions at most.  calc holds *)
(* the snapshot, and of the last call the snapshot before it, the op and   *)
(* the error thrown.                                                       *)
(***************************************************************************)
\* Edit payloads that the snapshot's type can take (a delta; an insert, a delete).
KernelPayloads(snapshot) ==
    IF snapshot.type = TextUri THEN {Insert(0, <<"a">>), Delete(0, 1)} ELSE {1}

KernelVersions(snapshot) == {UNDEFINED, NULL, snapshot.v, snapshot.v + 1}

KernelOps(snapshot) ==
    UNION {{CreateOp("counter", NoData, v, NoSrc, UNDEFINED),
            CreateOp(TextUri, Str(<<"b">>), v, NoSrc, UNDEFINED),
            CreateOp("json0", NoData, v, NoSrc, UNDEFINED),
            DeleteOp(v, NoSrc, UNDEFINED),
            BaseOp(v, NoSrc, UNDEFINED)}
           \cup {EditOp(payload, v, NoSrc, UNDEFINED) : payload \in KernelPayloads(snapshot)}
           : v \in KernelVersions(snapshot)}

InitKernel ==
    /\ appType = CounterUri
    /\ EmptyStore
    /\ InitBackend
    /\ InitClients
    /\ calc = [stage |-> "new", snapshot |-> createEmptySnapshot]

KernelApply(op) ==
    /\ calc.stage \in {"new", "applied"}
    /\ calc.snapshot.v < MaxApplies
    /\ LET r == apply(calc.snapshot, op)
       IN  calc' = [stage |-> "applied", before |-> calc.snapshot, op |-> op,
                    err |-> r.err, snapshot |-> r.snapshot]
    /\ UNCHANGED <<serverVars, toClient, toServer, clientVars, returned, appType>>

NextKernel == \E op \in KernelOps(calc.snapshot) : KernelApply(op)

SpecKernel == InitKernel /\ [][NextKernel]_vars

(***************************************************************************)
(* The kernel's transform on its own, as its tests call it: one call on a  *)
(* type (registered, unknown or none), an op and an applied op of any      *)
(* shape, each with any version member up to MaxApplies or none.  calc     *)
(* holds the arguments, then also the op as the call left it and the error *)
(* thrown.                                                                 *)
(***************************************************************************)
TransformTypes == {NoType, CounterUri, TextUri, "json0"}

TransformVersions == {UNDEFINED, NULL} \cup 0..MaxApplies

TransformOps(type) ==
    UNION {{CreateOp("counter", NoData, v, NoSrc, UNDEFINED),
            DeleteOp(v, NoSrc, UNDEFINED),
            BaseOp(v, NoSrc, UNDEFINED)}
           \cup {EditOp(payload, v, NoSrc, UNDEFINED) :
                   payload \in KernelPayloads(Snapshot(0, type, NoData))}
           : v \in TransformVersions}

InitTransform ==
    /\ appType = CounterUri
    /\ EmptyStore
    /\ InitBackend
    /\ InitClients
    /\ \E type \in TransformTypes :
         \E op \in TransformOps(type), appliedOp \in TransformOps(type) :
           calc = [stage |-> "input", type |-> type, op |-> op, appliedOp |-> appliedOp]

KernelTransform ==
    /\ calc.stage = "input"
    /\ LET r == transform(calc.type, calc.op, calc.appliedOp)
       IN  calc' = [stage |-> "transformed", type |-> calc.type, before |-> calc.op,
                    appliedOp |-> calc.appliedOp, err |-> r.err, op |-> r.op]
    /\ UNCHANGED <<serverVars, toClient, toServer, clientVars, returned, appType>>

SpecTransform == InitTransform /\ [][KernelTransform]_vars

(***************************************************************************)
(* checkOp on its own, as its tests call it: one call on an object that    *)
(* has any of the members create (of a known or an unknown type), del      *)
(* (true or false) and op, and any of v, src and seq.  calc holds the      *)
(* object, then also the error thrown.                                     *)
(***************************************************************************)
CheckOpInput(type, del, edit, v, src, seq) ==
    Spread(Spread(Spread(BaseOp(v, src, seq),
                         IF type = NoType THEN <<>>
                         ELSE [create |-> [type |-> type, data |-> NoData]]),
                  IF del = "absent" THEN <<>> ELSE [del |-> (del = "true")]),
           IF edit THEN [op |-> 5] ELSE <<>>)

InitCheckOp ==
    /\ appType = CounterUri
    /\ EmptyStore
    /\ InitBackend
    /\ InitClients
    /\ \E type \in {NoType, "counter", "unknown-type"}, del \in {"absent", "true", "false"},
          edit \in BOOLEAN, v \in {UNDEFINED, 0}, src \in {NoSrc, "client1"},
          seq \in {UNDEFINED, 1} :
         calc = [stage |-> "input", op |-> CheckOpInput(type, del, edit, v, src, seq)]

CheckOp ==
    /\ calc.stage = "input"
    /\ calc' = [stage |-> "checked", op |-> calc.op, err |-> checkOp(calc.op)]
    /\ UNCHANGED <<serverVars, toClient, toServer, clientVars, returned, appType>>

SpecCheckOp == InitCheckOp /\ [][CheckOp]_vars

(***************************************************************************)
(* The reference types on their own: two concurrent operations on one      *)
(* state, applied in either order with the other transformed.              *)
(***************************************************************************)
CounterStates == {Num(n) : n \in 0..MaxDelta}

CounterOps == (0 - MaxDelta)..MaxDelta

Alphabet == <<"a", "b", "c", "d", "e">>

TextStates == {Str(SubSeq(Alphabet, 1, n)) : n \in 0..Min2(MaxTextLen, Len(Alphabet))}

\* The text operations that are valid on text: inserts of ch anywhere, deletes within.
ValidTextOps(text, ch) ==
    {Insert(pos, <<ch>>) : pos \in 0..Len(text)}
    \cup UNION {{Delete(pos, count) : count \in 1..(Len(text) - pos)} : pos \in 0..(Len(text) - 1)}

InitTypes ==
    /\ EmptyStore
    /\ InitBackend
    /\ InitClients
    /\ \/ /\ appType = CounterUri
          /\ \E initial \in CounterStates, opA \in CounterOps, opB \in CounterOps :
               calc = [stage |-> "input", initial |-> initial, opA |-> opA, opB |-> opB]
       \/ /\ appType = TextUri
          /\ \E initial \in TextStates :
               \E opA \in ValidTextOps(initial.s, "X"), opB \in ValidTextOps(initial.s, "Y") :
                 calc = [stage |-> "input", initial |-> initial, opA |-> opA, opB |-> opB]

\* Path 1: apply A, then B transformed past A; path 2: apply B, then A transformed past B.
Converge ==
    /\ calc.stage = "input"
    /\ LET afterA == TypeApply(appType, calc.initial, calc.opA)
           transformedB == TypeTransform(appType, calc.opB, calc.opA, "right")
           afterB == TypeApply(appType, calc.initial, calc.opB)
           transformedA == TypeTransform(appType, calc.opA, calc.opB, "left")
       IN  calc' = [calc EXCEPT !.stage = "done"] @@
                   [result1 |-> TypeApply(appType, afterA, transformedB),
                    result2 |-> TypeApply(appType, afterB, transformedA)]
    /\ UNCHANGED <<serverVars, toClient, toServer, clientVars, returned, appType>>

SpecTypes == InitTypes /\ [][Converge]_vars

(***************************************************************************)
(* textType.transform on its own: every pair of well-formed operations     *)
(* that are valid on the same text, and both sides.                        *)
(***************************************************************************)
InsertedTexts == {<<"X">>, <<"X", "Y">>}

WellFormedTextOps(text) ==
    {Insert(pos, t) : pos \in 0..Len(text), t \in InsertedTexts}
    \cup UNION {{Delete(pos, count) : count \in 0..(Len(text) - pos)} : pos \in 0..Len(text)}

InitTextTransform ==
    /\ EmptyStore
    /\ InitBackend
    /\ InitClients
    /\ appType = TextUri
    /\ \E initial \in TextStates, side \in {"left", "right"} :
         \E op1 \in WellFormedTextOps(initial.s), op2 \in WellFormedTextOps(initial.s) :
           calc = [stage |-> "input", initial |-> initial, op1 |-> op1, op2 |-> op2,
                   side |-> side]

\* textType.transform(op1, op2, side)
TransformText ==
    /\ calc.stage = "input"
    /\ calc' = [calc EXCEPT !.stage = "transformed"] @@
                [result |-> TextTransform(calc.op1, calc.op2, calc.side)]
    /\ UNCHANGED <<serverVars, toClient, toServer, clientVars, returned, appType>>

SpecTextTransform == InitTextTransform /\ [][TransformText]_vars

(***************************************************************************)
(* One client, connected and subscribed, as the only writer of a document  *)
(* of a new backend: it creates, edits and deletes the document without    *)
(* waiting for acknowledgements.  Every scheduled callback of the event    *)
(* loop runs and every message in a transport is delivered.                *)
(***************************************************************************)
NextWriter ==
    \/ Connect(1)
    \/ Subscribe(1)
    \/ CanSubmitAgain /\ doc[1].subscribed /\ Create(1)
    \/ CanSubmitAgain /\ doc[1].subscribed /\ SubmitOp(1)
    \/ CanSubmitAgain /\ doc[1].subscribed /\ Del(1)
    \/ FlushTimer(1)
    \/ ClientReceive(1)
    \/ AgentReceive(1)
    \/ Server

SpecWriter ==
    /\ InitFresh /\ [][NextWriter]_vars
    /\ WF_vars(Server)
    /\ WF_vars(ClientReceive(1)) /\ WF_vars(AgentReceive(1)) /\ WF_vars(FlushTimer(1))

(***************************************************************************)
(* One client, subscribed, as the only writer of an existing text          *)
(* document: edits are submitted without waiting for acknowledgements.     *)
(***************************************************************************)
NextSingle ==
    \/ Connect(1)
    \/ Subscribe(1)
    \/ CanSubmit /\ doc[1].subscribed /\ SubmitOp(1)
    \/ FlushTimer(1)
    \/ ClientReceive(1)
    \/ AgentReceive(1)
    \/ Commits

SpecSingle == InitText /\ [][NextSingle]_vars

(***************************************************************************)
(* Ties: two editors of an existing text document, one insert each, beside *)
(* textType.transform of two inserts at one position.                      *)
(***************************************************************************)
InitTie ==
    /\ appType = TextUri
    /\ LoadedStore
    /\ InitBackend
    /\ InitClients
    /\ \E pos \in 0..Len(InitialData(TextUri).s), t \in InsertedTexts, side \in {"left", "right"} :
         calc = [stage |-> "input", initial |-> InitialData(TextUri),
                 op1 |-> Insert(pos, <<"X">>), op2 |-> Insert(pos, t), side |-> side]

NextTie ==
    \/ \E c \in Editors : Connect(c)
    \/ \E c \in Editors : Subscribe(c)
    \/ \E c \in Editors : callbacks[c] = <<>> /\ doc[c].type # NoType /\ SubmitOp(c)
    \/ \E c \in Editors : FlushTimer(c)
    \/ \E c \in Editors : ClientReceive(c)
    \/ \E c \in Editors : AgentReceive(c)
    \/ Commits
    \/ TransformText

SpecTie == InitTie /\ [][NextTie]_vars

(***************************************************************************)
(* Convergence.                                                            *)
(***************************************************************************)
\* C3: for counter and simple-text, applying a then transform(b, a, right) gives the
\* state that applying b then transform(a, b, left) gives, for every state and every
\* pair of operations valid on it.
C3_TP1 == calc.stage = "done" => calc.result1 = calc.result2

\* Nothing is in flight anywhere: no message, no handler, no timer, no unsent op.
Quiescent ==
    /\ jobs = <<>>
    /\ \A c \in Clients :
         /\ toServer[c] = <<>> /\ toClient[c] = <<>> /\ timers[c] = 0
         /\ doc[c].inflightOp = <<>> /\ doc[c].pendingOps = <<>>

\* Both editors are subscribed and each has submitted one edit, at the same version.
OneEditEachAtSameVersion ==
    /\ \A c \in Editors : doc[c].subscribed /\ Len(callbacks[c]) = 1
    /\ callbacks[1][1].v = callbacks[2][1].v

\* C1: two subscribed clients each submit one text edit at the same base version;
\* once every message is delivered, both replicas and the server hold the same text.
C1_TextConvergence ==
    (Quiescent /\ OneEditEachAtSameVersion)
        => /\ doc[1].data = doc[2].data
           /\ doc[1].data = getSnapshot.data

\* The increments submitted so far, and their sum (editor c increments by c).
Submitted == Len(callbacks[1]) + Len(callbacks[2])

SubmittedSum == Len(callbacks[1]) + 2 * Len(callbacks[2])

\* C2: once every message is delivered, the server and every subscribed replica of the
\* counter hold the initial value plus the sum of all submitted increments, at the
\* initial version plus the number of increments.
C2_CounterConvergence ==
    Quiescent =>
        /\ getSnapshot.data = Num(InitialData(CounterUri).n + SubmittedSum)
        /\ getSnapshot.v = CreatedSnapshot(CounterUri).v + Submitted
        /\ \A c \in Editors :
             doc[c].subscribed =>
                 /\ doc[c].data = getSnapshot.data
                 /\ doc[c].version = getSnapshot.v

\* Both editors subscribed, several increments each way, two of them concurrent, all settled.
C2_Witness ==
    /\ Quiescent
    /\ \A c \in Editors : doc[c].subscribed /\ callbacks[c] # <<>>
    /\ Submitted = MaxEdits
    /\ callbacks[1][1].v = callbacks[2][1].v
    /\ doc[1].data = Num(InitialData(CounterUri).n + SubmittedSum)

(***************************************************************************)
(* One op in flight per client.                                            *)
(***************************************************************************)
\* The op messages client c has sent and not yet had the reply to: still on the way
\* to the agent, being handled by it, or replied to with the reply on its way back.
Unanswered(c) ==
    Cardinality({i \in 1..Len(toServer[c]) : toServer[c][i].a = "op"})
    + Cardinality({i \in 1..Len(jobs) : jobs[i].kind = "op" /\ jobs[i].agent = c})
    + Cardinality({i \in 1..Len(toClient[c]) :
                     /\ toClient[c][i].a = "op"
                     /\ toClient[c][i].src = conn[c].id
                     /\ DOMAIN toClient[c][i] \cap {"op", "create", "del"} = {}})

\* C4: a client never has two ops outstanding: it sends its next op only after the
\* reply to the one before, also after a remote op made it roll back.
C4_OneInflight == \A c \in Editors : Unanswered(c) <= 1

(***************************************************************************)
(* The op log.                                                             *)
(***************************************************************************)
\* C5: the op log has no gap and no duplicate: its i-th entry (from 0) has v = i, and
\* its length is the snapshot's version.
C5_LogGapFree ==
    /\ \A i \in 1..Len(ops) : ops[i].v = i - 1
    /\ Len(ops) = getSnapshot.v

\* A handler lost the race for a version, started over and committed the log's third op.
C5_Witness ==
    /\ Len(ops) = 3
    /\ \E i \in 1..Len(jobs) :
         jobs[i].retries > 0 /\ jobs[i].pc = "resolved" /\ jobs[i].opCopy = ops[3]

\* The position, among client c's submit calls, of the one sent with seq.
SubmitIndex(c, seq) == CHOOSE k \in 1..Len(callbacks[c]) : callbacks[c][k].seq = seq

\* C7: the ops of one client are in the log in the order the client submitted them.
C7_SubmitOrder ==
    \A c \in Editors : \A i, j \in 1..Len(ops) :
        (i < j /\ conn[c].id # NoSrc /\ ops[i].src = conn[c].id /\ ops[j].src = conn[c].id)
            => SubmitIndex(c, ops[i].seq) < SubmitIndex(c, ops[j].seq)

\* A client submitted twice before the first op was sent, and both ops are in the log.
C7_Witness ==
    \E c \in Editors :
        /\ Len(callbacks[c]) >= 2
        /\ callbacks[c][1].v = callbacks[c][2].v
        /\ Cardinality({i \in 1..Len(ops) : ops[i].src = conn[c].id}) = 2

(***************************************************************************)
(* Replies and broadcasts.                                                 *)
(***************************************************************************)
\* The agent's handler at the head of the queue finishes in this step.
Finishes(pc) ==
    /\ jobs # <<>>
    /\ Head(jobs).kind = "op" /\ Head(jobs).agent \in Clients /\ Head(jobs).pc = pc
    /\ jobs' = Tail(jobs)

\* The op messages (replies or broadcasts) a step hands to client c's transport.
Handed(c) ==
    IF Len(toClient'[c]) > Len(toClient[c])
    THEN SelectSeq(SubSeq(toClient'[c], Len(toClient[c]) + 1, Len(toClient'[c])),
                   LAMBDA m : m.a = "op")
    ELSE <<>>

\* The log entries of the op with the given origin.
Logged(src, seq) == {k \in 1..Len(ops) : ops[k].src = src /\ ops[k].seq = seq}

\* C9: when an op has committed, its submitter is sent one acknowledgement with the
\* op's (src, seq) and the new snapshot version; every other agent subscribed at that
\* time is sent the op once, with v the version it was committed at; agents that are
\* not subscribed are sent nothing; the submitter is not sent its own op.  No other
\* step sends an acknowledgement or a broadcast.
C9_AckAndBroadcast ==
    [][/\ Finishes("resolved2") =>
            LET j == Head(jobs)
            IN  \E k \in Logged(j.op.src, j.op.seq) :
                  /\ Logged(j.op.src, j.op.seq) = {k}
                  /\ Handed(j.agent) = <<[a |-> "op", v |-> ops[k].v + 1,
                                          src |-> ops[k].src, seq |-> ops[k].seq]>>
                  /\ getSnapshot.v >= ops[k].v + 1
                  /\ \A c \in Clients \ {j.agent} :
                       Handed(c) = IF c \in subscriptionsByDoc
                                   THEN <<Spread([a |-> "op"], ops[k])>>
                                   ELSE <<>>
       /\ ~(Finishes("resolved2") \/ Finishes("rejected2")) =>
            \A c \in Clients : Handed(c) = <<>>]_vars

\* An op of a subscribed client has committed while the other editor is subscribed too,
\* and both the acknowledgement and the broadcast are on their way.
C9_Witness ==
    \E c, d \in Editors :
        /\ c # d /\ {c, d} \subseteq subscriptionsByDoc
        /\ \E i \in 1..Len(toClient[c]) :
             /\ toClient[c][i].a = "op" /\ toClient[c][i].src = conn[c].id
             /\ DOMAIN toClient[c][i] = {"a", "v", "src", "seq"}
        /\ \E i \in 1..Len(toClient[d]) :
             /\ toClient[d][i].a = "op" /\ toClient[d][i].src = conn[c].id
             /\ DOMAIN toClient[d][i] \cap {"op", "create", "del"} # {}

\* The broadcasts among the messages of a channel: the op messages that carry an op.
BroadcastsIn(chan) ==
    SelectSeq(chan, LAMBDA m : m.a = "op" /\ DOMAIN m \cap {"op", "create", "del"} # {})

\* C8: a subscriber is sent the committed ops in log order: the broadcasts on their way
\* to it have strictly increasing v, and when a handler sends its op, every op that is
\* later in the log is still held by a handler that has yet to send it.
C8_BroadcastOrder ==
    [][/\ \A c \in Clients :
            LET b == BroadcastsIn(toClient'[c])
            IN  \A i, k \in 1..Len(b) : i < k => b[i].v < b[k].v
       /\ Finishes("resolved2") =>
            \A k \in 1..Len(ops) :
                ops[k].v > Head(jobs).opCopy.v =>
                    \E i \in 2..Len(jobs) :
                        /\ jobs[i].kind = "op" /\ jobs[i].committed
                        /\ jobs[i].pc \in {"commit", "resolved", "resolved2"}
                        /\ jobs[i].opCopy = ops[k]]_vars

\* Two handlers ran interleaved, the second of them having started over; the first
\* op is on its way to the third subscriber and the second is about to be sent.
C8_Witness ==
    /\ 3 \in subscriptionsByDoc
    /\ Len(BroadcastsIn(toClient[3])) = 1
    /\ jobs # <<>>
    /\ Head(jobs).kind = "op" /\ Head(jobs).pc = "resolved2" /\ Head(jobs).retries > 0
    /\ Head(jobs).opCopy.v = BroadcastsIn(toClient[3])[1].v + 1

ErrorCodes ==
    {ERR_APPLY_OP_VERSION_DOES_NOT_MATCH_SNAPSHOT, ERR_DOC_ALREADY_CREATED,
     ERR_DOC_DOES_NOT_EXIST, ERR_DOC_TYPE_NOT_RECOGNIZED, ERR_DOC_WAS_DELETED,
     ERR_OT_OP_BADLY_FORMED, ERR_OP_VERSION_MISMATCH_DURING_TRANSFORM,
     ERR_OP_ALREADY_SUBMITTED, ERR_SUBMIT_TRANSFORM_OPS_NOT_FOUND,
     ERR_MAX_SUBMIT_RETRIES_EXCEEDED}

\* C10: when the commit loop fails, the submitter is sent one error reply with the
\* op's (src, seq) and the error's code, and no other agent is sent anything.
C10_ErrorReply ==
    [][Finishes("rejected2") =>
         LET j == Head(jobs)
         IN  /\ Len(Handed(j.agent)) = 1
             /\ Handed(j.agent)[1].src = j.op.src
             /\ Handed(j.agent)[1].seq = j.op.seq
             /\ "error" \in DOMAIN Handed(j.agent)[1]
             /\ Handed(j.agent)[1].error \in ErrorCodes
             /\ \A c \in Clients \ {j.agent} : Handed(c) = <<>>]_vars

\* An error reply is on its way to a client while the other editor is subscribed.
C10_Witness ==
    \E c, d \in Editors :
        /\ c # d /\ d \in subscriptionsByDoc
        /\ \E i \in 1..Len(toClient[c]) :
             /\ "error" \in DOMAIN toClient[c][i]
             /\ toClient[c][i].src = conn[c].id

(***************************************************************************)
(* Resubmission.                                                           *)
(***************************************************************************)
\* The op of call k was in the log already when the call was made.
Resubmission(k) ==
    \E i \in 1..returned[k].called :
        ops[i].src = returned[k].op.src /\ ops[i].seq = returned[k].op.seq

\* C6: no (src, seq) is in the log twice, and submitting again an op that is in the
\* log fails with ERR_OP_ALREADY_SUBMITTED whatever its v (absent and current included).
C6_NoResubmission ==
    /\ \A i, j \in 1..Len(ops) :
         (i < j /\ ops[i].src # NoSrc) => ~(ops[i].src = ops[j].src /\ ops[i].seq = ops[j].seq)
    /\ \A k \in 1..Len(returned) :
         (returned[k].settled /\ Resubmission(k)) => returned[k].err = ERR_OP_ALREADY_SUBMITTED

(***************************************************************************)
(* The commit loop.                                                        *)
(***************************************************************************)
\* Call k has returned a result, for an op given with a version.
Committed(k) ==
    returned[k].settled /\ returned[k].err = OK /\ ~IsNullish(returned[k].submitted.v)

\* C11: a submit of an op with base version v below the current version n is rebased
\* over log entries v..n-1 in order and committed with v = n, the result's snapshot has
\* version n+1, and the result's ops are exactly those log entries.
C11_RebasedOverLog ==
    \A k \in 1..Len(returned) :
        Committed(k) =>
            LET v == returned[k].submitted.v
                n == returned[k].v - 1
            IN  /\ ops[n + 1].v = n
                /\ ops[n + 1].src = returned[k].submitted.src
                /\ ops[n + 1].seq = returned[k].submitted.seq
                /\ returned[k].ops = SubSeq(ops, v + 1, n)

\* C14: submitOp does not modify the caller's op: after the call, also one that lost a
\* commit race and started over, the op is as it was given (its v included).
C14_CallerOpUntouched ==
    \A k \in 1..Len(returned) :
        returned[k].settled => returned[k].op = returned[k].submitted

\* The step ends a submit in failure: the job now last in the queue has thrown.
Fails == jobs' # jobs /\ jobs' # <<>> /\ jobs'[Len(jobs')].pc = "rejected"

\* The step resumes a submit that gave a version above the one it read from the store.
TooNew ==
    /\ jobs # <<>> /\ Head(jobs).kind = "op" /\ Head(jobs).pc = "getSnapshot"
    /\ jobs' # jobs /\ Len(jobs') = Len(jobs)
    /\ ~IsNullish(Head(jobs).op.v) /\ Head(jobs).op.v > Head(jobs).snapshot.v

WithinRetries(j) ==
    \/ j.retries <= j.maxRetries
    \/ /\ j.retries = j.maxRetries + 1
       /\ j.pc = "rejected" /\ j.err = ERR_MAX_SUBMIT_RETRIES_EXCEEDED

\* Every call made so far has returned.
AllReturned == \A k \in 1..Len(returned) : returned[k].settled

\* C13: every submitOp call terminates (with a result or an error): whenever calls are
\* in progress, all of them return; and a call whose commit keeps failing stops with
\* ERR_MAX_SUBMIT_RETRIES_EXCEEDED once it has failed more than maxRetries times.
C13_SubmitTerminates ==
    /\ [](\A i \in 1..Len(jobs) : jobs[i].kind = "submitOp" => WithinRetries(jobs[i]))
    /\ (~AllReturned) ~> AllReturned

\* One call has given up after its retries, another has committed after a retry.
C13_Witness ==
    /\ \E k \in 1..Len(returned) :
          returned[k].settled /\ returned[k].err = ERR_MAX_SUBMIT_RETRIES_EXCEEDED
    /\ \E k \in 1..Len(returned) :
          /\ returned[k].settled /\ returned[k].err = OK
          /\ returned[k].op # returned[k].submitted

(***************************************************************************)
(* MemoryDb.commit.                                                        *)
(***************************************************************************)
\* The step resumes a submit up to its call of db.commit; the job is then last in the
\* queue, with the op and the snapshot it gave and the result it awaits.
CommitCalled ==
    /\ jobs' # jobs /\ jobs' # <<>> /\ Len(jobs') = Len(jobs)
    /\ jobs'[Len(jobs')].pc = "commit"

\* C15: commit is a compare-and-swap on the version: it returns true exactly when the
\* stored version (0 for a document never committed) equals op.v, and then appends
\* that one entry to the log and replaces the snapshot; otherwise it returns false and
\* changes nothing.  Nothing else writes the store, and no two calls are accepted at
\* the same version.
C15_CommitIsCompareAndSwap ==
    /\ [][ LET j == jobs'[Len(jobs')]
           IN  IF CommitCalled
               THEN /\ j.committed <=> (j.opCopy.v = currentVersion)
                    /\ j.committed =>
                          /\ ops' = Append(ops, j.opCopy)
                          /\ snapshots' = <<j.snapshot>>
                    /\ ~j.committed => UNCHANGED <<snapshots, ops>>
               ELSE UNCHANGED <<snapshots, ops>> ]_vars
    /\ [](\A i, k \in 1..Len(ops) : ops[i].v = ops[k].v => i = k)

\* Two calls raced at version 0 on a document never committed: one commit was
\* accepted, the other refused.
C15_Witness ==
    \E i, k \in 1..Len(jobs) :
        /\ jobs[i].pc = "commit" /\ jobs[k].pc = "commit"
        /\ jobs[i].opCopy.v = 0 /\ jobs[k].opCopy.v = 0
        /\ jobs[i].committed /\ ~jobs[k].committed

(***************************************************************************)
(* The store's reads.                                                      *)
(***************************************************************************)
\* The step is a write by the caller to the object it got from a read.
CallerWrites == calc # NoCalc /\ calc.stage = "held" /\ calc' # calc

\* The step is a getSnapshot of a document that no commit has stored.
ReadsNeverCreated == calc = NoCalc /\ calc' # calc /\ calc'.ref = 0 /\ snapshots = <<>>

\* C16: what the store's reads return are clones: a write to a snapshot from getSnapshot
\* or to an op from getOps changes neither the stored snapshot nor the log; and
\* getSnapshot of a document never created returns v = 0, type null, no data.
C16_ReadsReturnClones ==
    [][ /\ CallerWrites => UNCHANGED <<snapshots, ops>>
        /\ ReadsNeverCreated => calc'.value = Snapshot(0, NoType, NoData) ]_vars

(***************************************************************************)
(* The kernel's apply.                                                     *)
(***************************************************************************)
Applied == calc.stage = "applied"

\* C17: apply is all-or-nothing on the version: an apply that succeeds (create, edit,
\* delete or an op with none of them) leaves v greater by exactly 1, and an apply that
\* throws leaves v, type and data as they were.
C17_ApplyAllOrNothing ==
    Applied =>
        IF calc.err = OK
        THEN calc.snapshot.v = calc.before.v + 1
        ELSE /\ calc.snapshot.v = calc.before.v
             /\ calc.snapshot.type = calc.before.type
             /\ calc.snapshot.data = calc.before.data

\* A delete has been applied to a document at a version above 0, and counted.
C17_Witness ==
    Applied /\ calc.err = OK /\ isDeleteOp(calc.op) /\ calc.before.v > 0
            /\ calc.before.type # NoType

\* The op has a version and it is not the snapshot's.
VersionDiffers(snapshot, op) == ~IsNullish(op.v) /\ op.v # snapshot.v

\* C19: apply rejects an op whose v is set and differs from snapshot.v with
\* ERR_APPLY_OP_VERSION_DOES_NOT_MATCH_SNAPSHOT; of the ops that pass this first check,
\* a create on a snapshot whose type is set fails with ERR_DOC_ALREADY_CREATED and an
\* edit on a snapshot whose type is null fails with ERR_DOC_DOES_NOT_EXIST.
C19_ApplyRejects ==
    Applied =>
        IF VersionDiffers(calc.before, calc.op)
        THEN calc.err = ERR_APPLY_OP_VERSION_DOES_NOT_MATCH_SNAPSHOT
        ELSE /\ (isCreateOp(calc.op) /\ calc.before.type # NoType)
                    => calc.err = ERR_DOC_ALREADY_CREATED
             /\ (isEditOp(calc.op) /\ calc.before.type = NoType)
                    => calc.err = ERR_DOC_DOES_NOT_EXIST

\* A create with no version has been refused on a document that exists.
C19_Witness ==
    /\ Applied /\ isCreateOp(calc.op) /\ calc.op.v = UNDEFINED
    /\ calc.before.type # NoType /\ calc.err = ERR_DOC_ALREADY_CREATED

(***************************************************************************)
(* Existence of the document.                                              *)
(***************************************************************************)
\* The snapshot has no type exactly when it has no data.
WellFormed(snapshot) == (snapshot.type = NoType) <=> (snapshot.data = NoData)

\* C18: in every reachable state, the stored snapshot and every snapshot that apply has
\* produced (in the commit loop, or called on its own) has type null exactly when its
\* data is undefined; a document never created reads as v = 0 with type null.
C18_TypeIffData ==
    /\ \A i \in 1..Len(snapshots) : WellFormed(snapshots[i])
    /\ \A i \in 1..Len(jobs) : WellFormed(jobs[i].snapshot)
    /\ Applied => WellFormed(calc.snapshot)
    /\ snapshots = <<>> => (getSnapshot.v = 0 /\ getSnapshot.type = NoType)

\* The store holds a deleted document, and a handler holds a snapshot that apply gave
\* it data in.
C18_Witness ==
    /\ snapshots # <<>> /\ snapshots[1].type = NoType /\ snapshots[1].v > 1
    /\ \E i \in 1..Len(jobs) :
          jobs[i].pc = "commit" /\ jobs[i].snapshot.type # NoType

\* The step resumes the submit of a delete that has read a snapshot with no type.
DeletesNonexistent ==
    /\ jobs # <<>> /\ Head(jobs).kind = "op" /\ Head(jobs).pc = "getSnapshot"
    /\ isDeleteOp(Head(jobs).op) /\ Head(jobs).snapshot.type = NoType
    /\ jobs' # jobs /\ Len(jobs') = Len(jobs)

\* C20: a delete of a document that does not exist (never created, or deleted already)
\* is rejected with ERR_DOC_DOES_NOT_EXIST: the version does not advance and nothing
\* is appended to the log.
C20_DeleteOfNonexistentRejected ==
    [][ DeletesNonexistent =>
            /\ Fails /\ jobs'[Len(jobs')].err = ERR_DOC_DOES_NOT_EXIST
            /\ UNCHANGED <<snapshots, ops>> ]_vars

(***************************************************************************)
(* The kernel's transform.                                                 *)
(***************************************************************************)
Transformed == calc.stage = "transformed"

\* Both ops have a version and the versions are not the same.
VersionsDiffer(op, appliedOp) ==
    ~IsNullish(op.v) /\ ~IsNullish(appliedOp.v) /\ op.v # appliedOp.v

\* C21: transform of a delete never fails: against an applied op of any shape (create,
\* edit, delete, none) whose version matches, it succeeds, leaves the op a delete and
\* only increments its v when it has one.
C21_DeleteTransformsPastAll ==
    (Transformed /\ isDeleteOp(calc.before) /\ ~VersionsDiffer(calc.before, calc.appliedOp))
        => /\ calc.err = OK
           /\ isDeleteOp(calc.op)
           /\ calc.op = BumpV(calc.before)

\* The op given to transform has none of create, del and op.
isNoOp(op) == ~isCreateOp(op) /\ ~isDeleteOp(op) /\ ~isEditOp(op)

Shapes(op) == {"create", "del", "op"} \cap DOMAIN op

\* C23: checkOp accepts an object only if it has exactly one of create, del and op: an
\* object with more than one of them, or with none, is rejected as badly formed.
C23_ExactlyOneShape ==
    calc.stage = "checked" =>
        /\ calc.err = OK => Cardinality(Shapes(calc.op)) = 1
        /\ Cardinality(Shapes(calc.op)) # 1 => calc.err = ERR_OT_OP_BADLY_FORMED

(***************************************************************************)
(* The client replica.                                                     *)
(***************************************************************************)
\* The step is client c taking the message at the head of its channel.
Receives(c) == toClient[c] # <<>> /\ toClient'[c] = Tail(toClient[c])

\* The step is client c processing the acknowledgement of its inflight op.
Acknowledged(c) ==
    /\ Receives(c)
    /\ Head(toClient[c]).a = "op" /\ "error" \notin DOMAIN Head(toClient[c])
    /\ doc[c].inflightOp # <<>>
    /\ Head(toClient[c]).src = doc[c].inflightOp[1].src
    /\ Head(toClient[c]).seq = doc[c].inflightOp[1].seq

\* C24: when a replica processes the acknowledgement of its inflight op, create, edit
\* or delete, subscribed or not, its version becomes the version the acknowledgement
\* carries (the snapshot's version right after the commit); inflight is emptied and the
\* next pending op, if there is one, is sent.
C24_AckSetsVersion ==
    [][ \A c \in Clients :
          Acknowledged(c) =>
              /\ doc'[c].version = Head(toClient[c]).v
              /\ IF doc[c].pendingOps = <<>>
                 THEN doc'[c].inflightOp = <<>> /\ toServer'[c] = toServer[c]
                 ELSE /\ doc'[c].pendingOps = Tail(doc[c].pendingOps)
                      /\ doc'[c].inflightOp # <<>>
                      /\ doc'[c].inflightOp[1].callbacks = Head(doc[c].pendingOps).callbacks
                      /\ toServer'[c] = Append(toServer[c], opMessage(doc'[c].inflightOp[1]))
      ]_vars

\* The message at the head of client c's channel is a remote op (not an error, not the
\* acknowledgement of the inflight op) whose version is not the replica's.
StaleOrEarly(c) ==
    /\ toClient[c] # <<>>
    /\ Head(toClient[c]).a = "op" /\ "error" \notin DOMAIN Head(toClient[c])
    /\ ~(/\ doc[c].inflightOp # <<>>
          /\ Head(toClient[c]).src = doc[c].inflightOp[1].src
          /\ Head(toClient[c]).seq = doc[c].inflightOp[1].seq)
    /\ doc[c].version # NULL /\ ~IsNullish(Head(toClient[c]).v)
    /\ Head(toClient[c]).v # doc[c].version

LocalOps(c) == doc[c].inflightOp \o doc[c].pendingOps

\* The message at the head of client c's channel is a remote edit at the replica's
\* version, and the replica has a delete inflight or pending.
RemoteEditMeetsDelete(c) ==
    /\ toClient[c] # <<>>
    /\ Head(toClient[c]).a = "op" /\ "error" \notin DOMAIN Head(toClient[c])
    /\ isEditOp(Head(toClient[c]))
    /\ ~(/\ doc[c].inflightOp # <<>>
          /\ Head(toClient[c]).src = doc[c].inflightOp[1].src
          /\ Head(toClient[c]).seq = doc[c].inflightOp[1].seq)
    /\ doc[c].version # NULL /\ Head(toClient[c]).v = doc[c].version
    /\ \E i \in 1..Len(LocalOps(c)) : isDeleteOp(LocalOps(c)[i])

\* The last commit is the delete of client c, which the server rebased over edits of
\* other clients only, and the replica has taken every message.
DeleteSettled(c) ==
    /\ Quiescent /\ doc[c].subscribed
    /\ ops # <<>> /\ isDeleteOp(ops[Len(ops)]) /\ ops[Len(ops)].src = conn[c].id
    /\ \E k \in 1..Len(callbacks[c]) :
         /\ callbacks[c][k].seq = ops[Len(ops)].seq
         /\ callbacks[c][k].v < ops[Len(ops)].v
         /\ \A i \in 1..(Len(ops) - 1) :
              ops[i].v >= callbacks[c][k].v => isEditOp(ops[i]) /\ ops[i].src # conn[c].id

\* C26: delete wins locally: a remote edit that arrives at the replica's version while
\* the replica has a delete inflight or pending becomes a no-op (the local document
\* stays nonexistent, nothing is rolled back, the version advances by 1); and after the
\* delete is acknowledged replica and server agree: nonexistent, at equal versions.
C26_DeleteWins ==
    /\ [][ \A c \in Clients :
             (Receives(c) /\ RemoteEditMeetsDelete(c)) =>
                 /\ doc'[c].version = doc[c].version + 1
                 /\ doc'[c].type = NoType /\ doc'[c].data = NoData
                 /\ doc'[c].subscribed = doc[c].subscribed
                 /\ Len(doc'[c].inflightOp) = Len(doc[c].inflightOp)
                 /\ Len(doc'[c].pendingOps) = Len(doc[c].pendingOps)
                 /\ callbacks'[c] = callbacks[c] ]_vars
    /\ [](\A c \in Clients :
             DeleteSettled(c) =>
                 /\ doc[c].type = NoType /\ snapshots[1].type = NoType
                 /\ doc[c].version = snapshots[1].v)

\* The message at the head of client c's channel is a remote delete or create at the
\* replica's version, and the replica has a non-delete op inflight or pending.
RemoteConflict(c) ==
    /\ toClient[c] # <<>>
    /\ Head(toClient[c]).a = "op" /\ "error" \notin DOMAIN Head(toClient[c])
    /\ isDeleteOp(Head(toClient[c])) \/ isCreateOp(Head(toClient[c]))
    /\ ~(/\ doc[c].inflightOp # <<>>
          /\ Head(toClient[c]).src = doc[c].inflightOp[1].src
          /\ Head(toClient[c]).seq = doc[c].inflightOp[1].seq)
    /\ doc[c].version # NULL /\ Head(toClient[c]).v = doc[c].version
    /\ \E i \in 1..Len(LocalOps(c)) : ~isDeleteOp(LocalOps(c)[i])

\* The message at the head of client c's channel is the server's rejection of the
\* inflight op.
Rejected(c) ==
    /\ toClient[c] # <<>>
    /\ Head(toClient[c]).a = "op" /\ "error" \in DOMAIN Head(toClient[c])
    /\ doc[c].inflightOp # <<>>

\* The submit calls of client c whose ops are inflight or pending.
Dropped(c) == {LocalOps(c)[i].callbacks : i \in 1..Len(LocalOps(c))}

\* The step resets replica c, fails every local op once and asks for the snapshot.
RolledBack(c) ==
    /\ doc'[c].inflightOp = <<>> /\ doc'[c].pendingOps = <<>>
    /\ doc'[c].type = NoType /\ doc'[c].data = NoData
    /\ \A k \in 1..Len(callbacks[c]) :
         IF k \in Dropped(c)
         THEN callbacks'[c][k].err = 1 /\ callbacks'[c][k].ok = 0
         ELSE callbacks'[c][k] = callbacks[c][k]
    /\ toServer'[c] = Append(toServer[c], [a |-> "s"])

\* The message at the head of client c's channel is a subscribe reply, and the replica
\* is as a rollback leaves it.
ReplyAfterRollback(c) ==
    /\ toClient[c] # <<>> /\ Head(toClient[c]).a = "s"
    /\ doc[c] = NewDoc

\* C27: hard rollback: a remote delete or create at the replica's version that meets a
\* non-delete local op, or the server's rejection of the inflight op, drops inflight
\* and pending, resets type and data to nonexistent, calls the callback of every
\* dropped op exactly once with the error and sends a subscribe request; after the
\* subscribe reply the replica holds the server's snapshot.
C27_HardRollback ==
    [][ \A c \in Clients :
          /\ (Receives(c) /\ (RemoteConflict(c) \/ Rejected(c))) => RolledBack(c)
          /\ (Receives(c) /\ ReplyAfterRollback(c)) =>
                 /\ doc'[c].version = Head(toClient[c]).data.v
                 /\ doc'[c].type = Head(toClient[c]).data.type
                 /\ doc'[c].data = Head(toClient[c]).data.data
                 /\ doc'[c].subscribed ]_vars

\* The step closes the connection of client c / completes a later handshake of it.
Closes(c) == conn[c].canSend /\ ~conn'[c].canSend
HandshakesAgain(c) == ~conn[c].canSend /\ conn'[c].canSend /\ conn[c].id # NoSrc

\* The messages the step hands to the transport of client c.
Sends(c) == SubSeq(toServer'[c], Len(toServer[c]) + 1, Len(toServer'[c]))

\* C28: when the connection is lost every replica with an inflight op returns it to the
\* head of pending and marks itself unsubscribed; the next handshake sends the op again
\* and resubscribes; an op that was inflight at the disconnect is not stuck forever.
C28_ReconnectResends ==
    /\ [][ \A c \in Clients :
             (Closes(c) /\ doc[c].inflightOp # <<>>) =>
                 /\ doc'[c].inflightOp = <<>>
                 /\ doc'[c].pendingOps = doc[c].inflightOp \o doc[c].pendingOps
                 /\ ~doc'[c].subscribed ]_vars
    /\ [][ \A c \in Clients :
             (HandshakesAgain(c) /\ LocalOps(c) # <<>>) =>
                 /\ \E i \in 1..Len(Sends(c)) :
                      /\ Sends(c)[i].a = "op"
                      /\ doc'[c].inflightOp # <<>>
                      /\ doc'[c].inflightOp[1].callbacks = LocalOps(c)[1].callbacks
                 /\ \E i \in 1..Len(Sends(c)) : Sends(c)[i].a = "s" ]_vars
    /\ \A c \in Editors :
         (~conn[c].canSend /\ LocalOps(c) # <<>>) ~> (LocalOps(c) = <<>>)

\* The step is a submit call (create, submitOp or del) of client c; it passed its local
\* precondition / it was refused.
Submits(c) == Len(callbacks'[c]) = Len(callbacks[c]) + 1
SubmitPasses(c) == Submits(c) /\ callbacks'[c][Len(callbacks'[c])].err = 0
SubmitRefused(c) == Submits(c) /\ callbacks'[c][Len(callbacks'[c])].err = 1

\* The record at the tail of the pending queue of client c after the step.
Queued(c) == doc'[c].pendingOps[Len(doc'[c].pendingOps)]

\* C29: a local submit that passes its precondition applies the op to the replica's type
\* and data at once, appends exactly one record with v = the replica's version at
\* submission to the tail of pending and leaves version and inflight op unchanged; a
\* submit that fails its precondition changes nothing and only calls back with an error.
C29_SubmitFrame ==
    [][ \A c \in Clients :
          /\ SubmitPasses(c) =>
                /\ Len(doc'[c].pendingOps) = Len(doc[c].pendingOps) + 1
                /\ SubSeq(doc'[c].pendingOps, 1, Len(doc[c].pendingOps)) = doc[c].pendingOps
                /\ Queued(c).v = doc[c].version
                /\ Queued(c).callbacks = Len(callbacks'[c])
                /\ doc'[c].version = doc[c].version
                /\ doc'[c].inflightOp = doc[c].inflightOp
                /\ doc'[c].subscribed = doc[c].subscribed
                /\ isCreateOp(Queued(c)) <=> doc[c].type = NoType
                /\ isCreateOp(Queued(c)) =>
                      /\ doc'[c].type = Queued(c).create.type
                      /\ doc'[c].data = TypeCreate(Queued(c).create.type, Queued(c).create.data)
                /\ isDeleteOp(Queued(c)) => doc'[c].type = NoType /\ doc'[c].data = NoData
                /\ isEditOp(Queued(c)) =>
                      /\ doc'[c].type = doc[c].type
                      /\ doc'[c].data = TypeApply(doc[c].type, doc[c].data, Queued(c).op)
                /\ toServer'[c] = toServer[c]
                /\ SubSeq(callbacks'[c], 1, Len(callbacks[c])) = callbacks[c]
          /\ SubmitRefused(c) =>
                /\ doc'[c] = doc[c] /\ conn'[c] = conn[c]
                /\ toServer'[c] = toServer[c] /\ timers'[c] = timers[c]
                /\ SubSeq(callbacks'[c], 1, Len(callbacks[c])) = callbacks[c]
                /\ callbacks'[c][Len(callbacks'[c])].ok = 0 ]_vars

\* The step acknowledges the inflight op of client c, which is the server's latest
\* commit, and the replica has nothing else queued.
AcknowledgedLatest(c) ==
    /\ Acknowledged(c)
    /\ doc[c].pendingOps = <<>>
    /\ ops # <<>>
    /\ ops[Len(ops)].src = doc[c].inflightOp[1].src
    /\ ops[Len(ops)].seq = doc[c].inflightOp[1].seq

\* C30: an op submitted before the handshake or before the subscribe reply is queued in
\* pending, is transmitted exactly once, after the connection can send, and is not lost:
\* once it is acknowledged the replica's type and data still reflect it and match the
\* server.
C30_EarlySubmitKept ==
    /\ [][ \A c \in Clients :
             /\ SubmitPasses(c) =>
                   /\ Len(doc'[c].pendingOps) = Len(doc[c].pendingOps) + 1
                   /\ toServer'[c] = toServer[c]
             /\ (\E i \in 1..Len(Sends(c)) : Sends(c)[i].a = "op") =>
                   /\ conn'[c].canSend
                   /\ callbacks[c][doc'[c].inflightOp[1].callbacks].seq = UNDEFINED
             /\ AcknowledgedLatest(c) =>
                   /\ doc'[c].type = snapshots[1].type
                   /\ doc'[c].data = snapshots[1].data ]_vars
    /\ \A c \in Editors : (doc[c].pendingOps # <<>>) ~> (doc[c].pendingOps = <<>>)

\* C31: the backend's subscription index mirrors the agents' own subscriptions: an agent
\* is in the document's subscriber set iff its own subscription map holds the document,
\* and a closed agent is in no subscriber set, even if its subscribe request was still
\* being handled when it closed.  (The subscriber set stands for the index entry, which
\* exists iff the set is not empty.)
C31_IndexMirrorsAgents ==
    /\ \A c \in Clients : c \in subscriptionsByDoc <=> subscriptions[c]
    /\ \A c \in Clients :
         (conn[c].id # NoSrc /\ c \notin agents) => c \notin subscriptionsByDoc

\* textType.transform has returned.
TextTransformed == calc.stage = "transformed"

\* op1 is a delete that lies within the applied delete op2.
Covered ==
    /\ ~isInsertOp(calc.op1) /\ ~isInsertOp(calc.op2)
    /\ calc.op2.pos <= calc.op1.pos
    /\ calc.op1.pos + calc.op1.count <= calc.op2.pos + calc.op2.count

\* C32: for well-formed simple-text ops valid on the same text and both sides, transform
\* returns an op of the kind of op1 with pos >= 0 and, for a delete, count >= 0; a delete
\* fully contained in the applied delete collapses to count = 0.
C32_TransformStaysWellFormed ==
    TextTransformed =>
        /\ DOMAIN calc.result = DOMAIN calc.op1
        /\ isInsertOp(calc.result) <=> isInsertOp(calc.op1)
        /\ calc.result.pos >= 0
        /\ ~isInsertOp(calc.result) => calc.result.count >= 0
        /\ Covered => calc.result.count = 0

\* A delete of two characters inside an applied delete of three has collapsed.
C32_Witness ==
    /\ TextTransformed /\ Covered
    /\ calc.op1.count = 2 /\ calc.op2.count = 3 /\ calc.result.count = 0

\* C33: transform of a delete against an applied insert shifts the delete's pos right by
\* the inserted length whenever the insert's pos <= the delete's pos, for side left as
\* well as right and at equal positions too, and leaves it unchanged otherwise; count is
\* never changed.
C33_DeleteShiftsPastInsert ==
    (TextTransformed /\ ~isInsertOp(calc.op1) /\ isInsertOp(calc.op2)) =>
        /\ calc.result.count = calc.op1.count
        /\ calc.result.pos = IF calc.op2.pos <= calc.op1.pos
                              THEN calc.op1.pos + Len(calc.op2.text)
                              ELSE calc.op1.pos

\* The server has committed one insert of each editor, submitted at the same base
\* version, at one position.
TieCommitted ==
    /\ \A c \in Editors : Len(callbacks[c]) = 1
    /\ callbacks[1][1].v = callbacks[2][1].v
    /\ Len(ops) = 3
    /\ isInsertOp(ops[2].op) /\ isInsertOp(ops[3].op)
    /\ ops[2].src # ops[3].src
    /\ ops[2].op.pos = ops[3].op.pos

\* C34: tie-break at equal position: transform of an insert against an insert at the
\* same pos keeps pos for side left and shifts it by the applied text length for side
\* right; so of two inserts at one position and base version submitted to the server,
\* the one committed second ends up before the one committed first.
C34_TieBreak ==
    /\ TextTransformed =>
          calc.result = [calc.op1 EXCEPT !.pos = IF calc.side = "left" THEN @
                                                 ELSE @ + Len(calc.op2.text)]
    /\ TieCommitted =>
          snapshots[1].data.s =
              Slice(InitialData(TextUri).s, 0, ops[2].op.pos)
              \o ops[3].op.text \o ops[2].op.text
              \o SliceFrom(InitialData(TextUri).s, ops[2].op.pos)

\* Both cases have happened: a tie transformed for side right, and two inserts committed
\* at position 0.
C34_Witness ==
    /\ TextTransformed /\ calc.side = "right" /\ calc.result.pos = calc.op1.pos + 2
    /\ TieCommitted /\ ops[2].op.pos = 0

\* C35: the server op log is append-only: no step (further submits, commit retries,
\* rebases, callers writing to values returned by submitOp or getOps, broadcasts)
\* changes or removes an entry; the log only grows at the tail.
C35_LogAppendOnly ==
    [][ /\ Len(ops') >= Len(ops)
        /\ SubSeq(ops', 1, Len(ops)) = ops ]_vars

\* C36: a replica is never ahead of the server: a replica's non-null version never
\* exceeds the version of the server's stored snapshot, and no op a replica has sent
\* carries v greater than the server's current version.
C36_ReplicaNeverAhead ==
    \A c \in Clients :
        /\ doc[c].version # NULL => doc[c].version <= currentVersion
        /\ \A i \in 1..Len(toServer[c]) :
             toServer[c][i].a = "op" => toServer[c][i].v <= currentVersion

\* C37: single-writer consistency: with one subscribed client as the only writer of a
\* simple-text document, edits submitted back to back included, whenever inflight and
\* pending are empty and no message is in transit the replica's version and data equal
\* the server snapshot's.
C37_SingleWriterConsistent ==
    (Quiescent /\ doc[1].subscribed) =>
        /\ doc[1].version = snapshots[1].v
        /\ doc[1].data = snapshots[1].data

\* Message m is an op of another agent (not an acknowledgement, not a rejection).
isRemoteOp(c, m) ==
    /\ m.a = "op" /\ "error" \notin DOMAIN m
    /\ m.src # conn[c].id

StrayRejection(c) ==
    /\ Rejected(c)
    /\ \/ Head(toClient[c]).src # doc[c].inflightOp[1].src
       \/ Head(toClient[c]).seq # doc[c].inflightOp[1].seq

\* C39: a server error reply only affects the op it refers to: a reply whose (src, seq)
\* is not the inflight op's (the rejection of an op a hard rollback already dropped)
\* leaves the inflight op, the pending ops, the replica's data and every callback alone.
C39_ErrorOnlyItsOp ==
    [][ \A c \in Clients :
          (Receives(c) /\ StrayRejection(c)) =>
              /\ doc'[c].inflightOp = doc[c].inflightOp
              /\ doc'[c].pendingOps = doc[c].pendingOps
              /\ doc'[c].data = doc[c].data
              /\ callbacks'[c] = callbacks[c] ]_vars

\* Submit call k of client c was accepted and has not been answered.
Awaited(c, k) ==
    /\ k <= Len(callbacks[c])
    /\ callbacks[c][k].ok = 0 /\ callbacks[c][k].err = 0

\* The op of submit call k of client c is in the server's log and its callback was
\* invoked without an error.
Succeeded(c, k) ==
    /\ k <= Len(callbacks[c])
    /\ callbacks[c][k].ok = 1 /\ callbacks[c][k].err = 0
    /\ \E i \in 1..Len(ops) :
         ops[i].src = conn[c].id /\ ops[i].seq = callbacks[c][k].seq

\* C40: liveness with a single writer: every op a local submit (create, submitOp, del)
\* of the one connected, subscribed client accepts, a create directly followed by an
\* edit included, is eventually committed by the server and its callback is eventually
\* invoked without error, under fair message delivery.
C40_SingleWriterLive ==
    \A k \in 1..MaxLifecycle : Awaited(1, k) ~> Succeeded(1, k)

====
